---- MODULE Spec2Model ----
(***************************************************************************)
(* The supervised counter actor of crates/actor_model/src/lib.rs:          *)
(* spawn_actor's consumer loop, Supervisor::start / monitor_loop, the      *)
(* SupervisorHandle's swappable sender slot and CounterHandle's            *)
(* request / request_with_timeout, as tasks of a multi-worker scheduler.   *)
(* Every step below is one stretch of code between two points at which     *)
(* another worker thread can observe or change shared state.               *)
(***************************************************************************)
EXTENDS Integers, Sequences, FiniteSets, TLC

\* ------------------------------------------------------------- bounds
MaxReqs == 3
MaxRetriesN == 2
MaxCapacity == 1
MaxMsgs == 2
MaxRawCapacity == 2
MaxReads == 3
MaxTimedReqs == 3
MaxAgents == 2
MaxTurns == 4
MaxCalls == 2
MaxNodes == 3
MaxEdges == 3

Callers == {"c1", "c2"}
Deltas == {1}

Inst == 1..(MaxRetriesN + 1)

\* the Senders of an unsupervised actor's mailbox: the one spawn_actor returned
\* and a clone of it
Senders == {"s1", "s2"}

\* ------------------------------------------------------------- program types
SendPolicy == {"Backpressure", "FailFast"}

\* c1 holds the handle spawn_counter returned, c2 one made by with_policy(FailFast)
HandlePolicyShared == [c \in Callers |-> "FailFast"]

HandlePolicy == [c \in Callers |-> IF c = "c1" THEN "Backpressure" ELSE "FailFast"]

RestartPolicy ==
    {[kind |-> "Never", n |-> 0]} \cup {[kind |-> "MaxRetries", n |-> k] : k \in 0..MaxRetriesN}

CounterMessage ==
    {[kind |-> "Add", delta |-> d] : d \in Deltas}
        \cup {[kind |-> k, delta |-> 0] : k \in {"Stop", "CrashNow"}}

\* the requests each caller issues: c1 every kind, c2 only adds
CallerMessages(c) ==
    IF c = "c1" THEN CounterMessage ELSE {m \in CounterMessage : m.kind = "Add"}

\* the requests of the tests on a counter under RestartPolicy::Never
SeqDeltas == {5, -2}

\* test_counter_add_get_happy_path: adds and gets on the spawn_counter handle
SeqMessages ==
    {[kind |-> "Add", delta |-> d] : d \in SeqDeltas} \cup {[kind |-> "Get", delta |-> 0]}

\* the Hold tests: adds on both handles
HoldMessages == {m \in CounterMessage : m.kind = "Add"}

\* the stop tests: adds on both handles, stop on the spawn_counter handle
StopMessages(c) == {m \in CallerMessages(c) : m.kind \in {"Add", "Stop"}}

\* durations in units of 10 ms: DEFAULT_TIMEOUT is 200 ms; test_timeout_triggered
\* overrides the timeout with 10 ms and delays its DelayGet by 50 ms
DEFAULT_TIMEOUT == 20
None == 0
Override == 1
Delay == 5

\* the calls of the timeout tests, as message and timeout_opt: the
\* crate-private DelayGet with and without the override on the spawn_counter
\* handle, add_with_timeout and get on the other handle
TimedCalls(c) ==
    IF c = "c1"
    THEN {[kind |-> "DelayGet", delta |-> 0, delay |-> Delay, tmo |-> t] : t \in {None, Override}}
    ELSE {[kind |-> "Add", delta |-> 1, delay |-> 0, tmo |-> Override],
          [kind |-> "Get", delta |-> 0, delay |-> 0, tmo |-> None]}

NoResult == [tag |-> "none", v |-> 0]
Ok(v) == [tag |-> "Ok", v |-> v]
Err(e) == [tag |-> e, v |-> 0]

\* the one-shot reply channel of a request: nothing sent yet, a value sent, or
\* the sending half dropped without a value
Pending == [tag |-> "pending", v |-> 0]
Sent(v) == [tag |-> "sent", v |-> v]
Dropped == [tag |-> "dropped", v |-> 0]

VARIABLES
    capacity,      \* spawn_counter's capacity argument
    policy,        \* spawn_counter's RestartPolicy argument
    startRes,      \* "none" before Supervisor::start has run, then "Ok" or the ActorError it returned
    aPc,           \* per instance: position of the task spawned by spawn_actor
    aMsg,          \* per instance: the request whose message the loop holds (0: none)
    state,         \* per instance: the counter owned by the loop
    mailbox,       \* per instance: the mpsc queue, as the queued requests' ids
    monPc,         \* position of the monitor_loop task
    attempts,      \* monitor_loop's local `attempts`
    monJoin,       \* the instance whose JoinHandle monitor_loop awaits
    newTx,         \* the instance created by the restart in progress (0: none)
    slot,          \* sender_slot: the instance whose Sender is published (0: no slot)
    writer,        \* the RwLock's write guard is held
    readers,       \* the callers holding a read guard of the RwLock
    handles,       \* the callers whose CounterHandle clone has not been dropped
    cPc,           \* per caller: position inside request / request_with_timeout
    cReq,          \* per caller: its request in flight (0: none)
    cSnd,          \* per caller: the instance of the Sender it cloned (0: none)
    req,           \* every request issued so far, in issue order
    reply,         \* per request: its one-shot reply channel
    result,        \* per request: what request_with_timeout returned
    factoryCalls,  \* history: invocations of the factory
    spawned,       \* history: spawn_actor calls that returned Ok
    restartFailed, \* history: the factory returned Err to monitor_loop
    log,           \* history, per instance: the requests its handler was invoked with, in order
    rawPc,         \* unsupervised actor: position of the task spawn_actor spawned, or how it ended
    rawQueue,      \* unsupervised actor: the mpsc queue
    rawMsg,        \* unsupervised actor: the message the loop holds
    rawState,      \* unsupervised actor: the state owned by the loop
    rawSenders,    \* unsupervised actor: the Senders not yet dropped
    rawSending,    \* per Sender: the message of its send(msg).await in progress
    rawStarted,    \* history: the messages in the order their sends were started
    rawHandled,    \* history: the messages in the order the handler was invoked with them
    rawFailed,     \* history: the messages whose send returned SendError
    now,           \* the runtime's clock, in units of TimeUnitMs
    deadline,      \* per caller: when the timeout of its request_with_timeout elapses (0: none)
    delayed,       \* per instance: the `delayed` tuple of the handler's future and when its sleep ends
    agents,        \* group manager: the length of the Vec<EchoAgentHandle> given to spawn_group_manager
    gStart,        \* "none" before spawn_group_manager has run, then "Ok" or the ActorError it returned
    turns,         \* per echo agent: EchoState.turns
    ePc,           \* per echo agent: position of its task
    eBox,          \* per echo agent: its mailbox, the queued Respond messages
    eOut,          \* the reply slot of the respond in flight: the output stored in it (<<>>: none)
    mPc,           \* position of the group manager's task
    mBox,          \* the group manager's mailbox, as the queued calls' ids
    next_idx,      \* GroupManagerState.next_idx
    picked,        \* the run future's `picked`, as the agents still to ask
    input,         \* the run future's `input`
    outputs,       \* the run future's `outputs`
    mCall,         \* the call whose Run the manager is handling (0: none)
    calls,         \* every run() / stop() call on the GroupManagerHandle, in call order
    gReply,        \* per call: its one-shot reply channel
    gRes,          \* per call: what run() / stop() returned
    gPc,           \* position of the caller inside run() / stop()
    nodes,         \* GraphBuilder: the number of nodes added
    out,           \* GraphBuilder: per node, the targets of its edges in insertion order
    indegree,      \* GraphBuilder: per node, its in-degree counter
    addRes,        \* the last add_edge call: its arguments, its number and what it returned
    built,         \* what build returned ("none" before it is called)
    fsmPc,         \* turnstile: position inside run ("idle" before the call, "done" after it returned)
    fsmArgs,       \* turnstile: the arguments run was called with
    fsmState,      \* turnstile: run's local `state`
    fsmQ,          \* turnstile: run's local `q`
    ctx,           \* turnstile: the Ctx behind run's `ctx`
    step_counter,  \* turnstile: run's local `step_counter`
    all_actions,   \* turnstile: run's local `all_actions`
    hit_cap,       \* turnstile: run's local `hit_cap`
    handled        \* history: the (state, event) pairs step was called with, in order

counterVars == <<policy, startRes, aPc, aMsg, state, mailbox, monPc,
                 attempts, monJoin, newTx, slot, writer, readers, handles, cPc, cReq, cSnd,
                 req, reply, result, factoryCalls, spawned, restartFailed, log>>

rawVars == <<rawPc, rawQueue, rawMsg, rawState, rawSenders, rawSending,
             rawStarted, rawHandled, rawFailed>>

timeVars == <<now, deadline, delayed>>

groupVars == <<agents, gStart, turns, ePc, eBox, eOut, mPc, mBox, next_idx, picked,
               input, outputs, mCall, calls, gReply, gRes, gPc>>

graphVars == <<nodes, out, indegree, addRes, built>>

fsmVars == <<fsmPc, fsmArgs, fsmState, fsmQ, ctx, step_counter, all_actions, hit_cap, handled>>

vars == <<capacity, counterVars, rawVars, timeVars, groupVars, graphVars, fsmVars>>

paramVars == <<capacity, policy>>
actorVars == <<aPc, aMsg, state, mailbox, log>>
monVars == <<monPc, attempts, monJoin, newTx>>
lockVars == <<slot, writer, readers>>
callerVars == <<cPc, cReq, cSnd>>
reqVars == <<req, reply, result>>
histVars == <<factoryCalls, spawned, restartFailed>>

\* a message of the unsupervised actor: the n-th sent through Sender `from`;
\* the handler returns ActorCtrl::Stop on it iff `stop`
NoMsg == [from |-> "none", n |-> 0, stop |-> FALSE]

\* the echo agents by their index in the manager's Vec, and their names
AgentIds == 0..(MaxAgents - 1)
AgentNames == <<"alice", "bob", "carol", "dave">>
\* the mailbox capacity the tests give every echo agent
EchoCapacity == 8

\* a String is a sequence of tokens: the text "hello", or the prefix
\* "name[turns]: " that an echo agent writes
Word(w) == [name |-> w, turns |-> 0]
Hello == <<Word("hello")>>

\* results and one-shot reply channels whose value is a Vec<String> or ()
GNoResult == [tag |-> "none", v |-> <<>>]
GOk(v) == [tag |-> "Ok", v |-> v]
GErr(e) == [tag |-> e, v |-> <<>>]
GPending == [tag |-> "pending", v |-> <<>>]
GSent(v) == [tag |-> "sent", v |-> v]
GDropped == [tag |-> "dropped", v |-> <<>>]

\* add_edge has not been called; build has not been called
NoEdgeCall == [res |-> "none", from |-> 0, to |-> 0, k |-> 0]
NotBuilt == [tag |-> "none", layers |-> <<>>]

\* the handler's future holds no `delayed` tuple
NoDelay == [r |-> 0, v |-> 0, wake |-> 0]

\* ------------------------------------------------------------- helpers
Created == {i \in Inst : aPc[i] # "none"}
\* the task has ended and its JoinHandle is ready (not: is about to end)
TerminatedWhileEnding(i) ==
    aPc[i] \in {"stopped", "panicked", "allDropped", "exitStop", "exitPanic"}

Terminated(i) == aPc[i] \in {"stopped", "panicked", "allDropped"}
\* the Receiver is dropped when the task ends: the channel is closed from then on
Closed(i) == Terminated(i)
\* the channel of instance i has no free slot: channel(capacity) holds at most
\* `capacity` messages
FullOffByOne(i) == Len(mailbox[i]) > capacity

Full(i) == Len(mailbox[i]) >= capacity

AllowsRestartOffByOne(p, attempts_so_far) ==
    IF p.kind = "MaxRetries" THEN attempts_so_far <= p.n ELSE FALSE

AllowsRestartAlways(p, attempts_so_far) == p.kind = "MaxRetries"

allows_restart(p, attempts_so_far) ==
    IF p.kind = "MaxRetries" THEN attempts_so_far < p.n ELSE FALSE

\* spawn_actor's result for a capacity: Err(InvalidCapacity) or a new mailbox and task
SpawnActorNoCheck(cap) == [ok |-> TRUE, err |-> "none"]

spawn_actor(cap) ==
    IF cap = 0 THEN [ok |-> FALSE, err |-> "InvalidCapacity"]
    ELSE [ok |-> TRUE, err |-> "none"]

\* the results one call of the factory F can have: spawn_counter's closure
\* returns spawn_actor's result; Supervisor accepts any F, which may return Err
\* of its own on any call
FactoryResults ==
    {spawn_actor(capacity)}
        \cup (IF capacity > 0 THEN {[ok |-> FALSE, err |-> "InitError"]} ELSE {})

\* the instance a successful factory call creates
NextInst == Cardinality(Created) + 1

\* the counter a new instance starts with (0_i64); old is the counter of the
\* instance it replaces, which the factory never sees
NewInstanceStateKept(old) == old

NewInstanceState(old) == 0

\* where the supervised actor stands when a request is issued: an instance has
\* stopped cleanly, a restart's factory call has failed, the last instance the
\* policy allows has ended by panic ("exhausted"), its handler has panicked but
\* its task has not ended yet ("faulting"), the published instance is held by
\* the tests' Hold with its mailbox full ("blocked"), or none of these
Snapshot ==
    LET last == (IF policy.kind = "MaxRetries" THEN policy.n ELSE 0) + 1 IN
    IF \E i \in Inst : aPc[i] = "stopped" THEN "stopped"
    ELSE IF restartFailed THEN "restartFailed"
    ELSE IF Cardinality({i \in Inst : aPc[i] = "panicked"}) = last THEN "exhausted"
    ELSE IF Cardinality({i \in Inst : aPc[i] \in {"exitPanic", "panicked"}}) = last THEN "faulting"
    ELSE IF slot # 0 /\ aPc[slot] = "held" /\ Full(slot) THEN "blocked"
    ELSE "alive"

\* turnstile: Ctx::default(), and the arguments of a run not yet called
CtxDefault == [coins |-> 0, pushes |-> 0, alarms |-> 0]
NoRun == [init_state |-> "Locked", init_events |-> <<>>, max_steps |-> 0]

\* ------------------------------------------------------------- Init
\* nothing has been spawned yet
NothingSpawned ==
    /\ startRes = "none"
    /\ aPc = [i \in Inst |-> "none"]
    /\ aMsg = [i \in Inst |-> 0]
    /\ state = [i \in Inst |-> 0]
    /\ mailbox = [i \in Inst |-> <<>>]
    /\ monPc = "none"
    /\ attempts = 0
    /\ monJoin = 0
    /\ newTx = 0
    /\ slot = 0
    /\ writer = FALSE
    /\ readers = {}
    /\ handles = Callers
    /\ cPc = [c \in Callers |-> "idle"]
    /\ cReq = [c \in Callers |-> 0]
    /\ cSnd = [c \in Callers |-> 0]
    /\ req = <<>>
    /\ reply = <<>>
    /\ result = <<>>
    /\ factoryCalls = 0
    /\ spawned = 0
    /\ restartFailed = FALSE
    /\ log = [i \in Inst |-> <<>>]
    /\ rawPc = "none"
    /\ rawQueue = <<>>
    /\ rawMsg = NoMsg
    /\ rawState = 0
    /\ rawSenders = {}
    /\ rawSending = [s \in Senders |-> NoMsg]
    /\ rawStarted = <<>>
    /\ rawHandled = <<>>
    /\ rawFailed = {}
    /\ now = 0
    /\ deadline = [c \in Callers |-> 0]
    /\ delayed = [i \in Inst |-> NoDelay]
    /\ agents = 0
    /\ gStart = "none"
    /\ turns = [a \in AgentIds |-> 0]
    /\ ePc = [a \in AgentIds |-> "none"]
    /\ eBox = [a \in AgentIds |-> <<>>]
    /\ eOut = <<>>
    /\ mPc = "none"
    /\ mBox = <<>>
    /\ next_idx = 0
    /\ picked = <<>>
    /\ input = <<>>
    /\ outputs = <<>>
    /\ mCall = 0
    /\ calls = <<>>
    /\ gReply = <<>>
    /\ gRes = <<>>
    /\ gPc = "idle"
    /\ nodes = 0
    /\ out = <<>>
    /\ indegree = <<>>
    /\ addRes = NoEdgeCall
    /\ built = NotBuilt
    /\ fsmPc = "idle"
    /\ fsmArgs = NoRun
    /\ fsmState = "Locked"
    /\ fsmQ = <<>>
    /\ ctx = CtxDefault
    /\ step_counter = 0
    /\ all_actions = <<>>
    /\ hit_cap = FALSE
    /\ handled = <<>>

Init ==
    /\ capacity \in 0..MaxCapacity
    /\ policy \in RestartPolicy
    /\ NothingSpawned

\* ------------------------------------------------------------- Supervisor::start
\* spawn_counter -> Supervisor::start: one factory call; on Err the error is
\* returned through `?`, on Ok the slot is created and monitor_loop spawned
Start ==
    /\ startRes = "none"
    /\ \E r \in FactoryResults :
        /\ factoryCalls' = factoryCalls + 1
        /\ IF r.ok
           THEN /\ startRes' = "Ok"
                /\ aPc' = [aPc EXCEPT ![NextInst] = "recv"]
                /\ spawned' = spawned + 1
                /\ slot' = NextInst
                /\ monPc' = "join"
                /\ monJoin' = NextInst
           ELSE /\ startRes' = r.err
                /\ UNCHANGED <<aPc, spawned, slot, monPc, monJoin>>
    /\ UNCHANGED <<handles, rawVars, groupVars, graphVars, fsmVars, timeVars, paramVars, aMsg, state, mailbox, log, attempts, newTx, writer,
                   readers, callerVars, reqVars, restartFailed>>

\* ------------------------------------------------------------- CounterHandle
\* request_with_timeout returns `res` to caller c: the request future is dropped
Finish(c, res) ==
    /\ result' = [result EXCEPT ![cReq[c]] = res]
    /\ cPc' = [cPc EXCEPT ![c] = "idle"]
    /\ cReq' = [cReq EXCEPT ![c] = 0]
    /\ cSnd' = [cSnd EXCEPT ![c] = 0]
    /\ deadline' = [deadline EXCEPT ![c] = 0]

\* add / get / stop / crash_now on caller c's handle: request builds the
\* one-shot channel and the message carrying its sending half, then clones the
\* published Sender under the read guard (SupervisorHandle::sender)
BeginRequest(c, m) ==
    /\ startRes = "Ok"
    /\ cPc[c] = "idle"
    /\ Cardinality({r \in DOMAIN req : req[r].kind # "Hold"}) < MaxReqs
    /\ ~writer
    /\ req' = Append(req, [caller |-> c, kind |-> m.kind, delta |-> m.delta,
                           pol |-> HandlePolicy[c], asked |-> slot, to |-> slot,
                           seen |-> Snapshot])
    /\ reply' = Append(reply, Pending)
    /\ result' = Append(result, NoResult)
    /\ cPc' = [cPc EXCEPT ![c] = "send"]
    /\ cReq' = [cReq EXCEPT ![c] = Len(req) + 1]
    /\ cSnd' = [cSnd EXCEPT ![c] = slot]
    /\ UNCHANGED <<handles, rawVars, groupVars, graphVars, fsmVars, timeVars, paramVars, startRes, actorVars, monVars, lockVars, histVars>>

\* SupervisorHandle::sender, step by step. The request has built its channel
\* and message and calls self.sup.sender(): sender_slot.read() is requested
SenderCall(c, m) ==
    /\ startRes = "Ok"
    /\ cPc[c] = "idle"
    /\ Len(req) < MaxReads
    /\ req' = Append(req, [caller |-> c, kind |-> m.kind, delta |-> m.delta,
                           pol |-> HandlePolicy[c], asked |-> slot, to |-> 0,
                           seen |-> Snapshot])
    /\ reply' = Append(reply, Pending)
    /\ result' = Append(result, NoResult)
    /\ cPc' = [cPc EXCEPT ![c] = "read"]
    /\ cReq' = [cReq EXCEPT ![c] = Len(req) + 1]
    /\ UNCHANGED <<handles, rawVars, groupVars, graphVars, fsmVars, timeVars, paramVars, startRes, actorVars, monVars, lockVars, cSnd, histVars>>

\* when the RwLock grants a read guard, and when it grants the write guard
ReadReadyDuringWrite == TRUE

ReadReady == ~writer

WriteReadyDespiteReaders == ~writer

WriteReady == ~writer /\ readers = {}

\* sender_slot.read().await returned the guard
ReadAcquire(c) ==
    /\ cPc[c] = "read"
    /\ ReadReady
    /\ readers' = readers \cup {c}
    /\ cPc' = [cPc EXCEPT ![c] = "reading"]
    /\ UNCHANGED <<handles, rawVars, groupVars, graphVars, fsmVars, timeVars, paramVars, startRes, actorVars, monVars, slot, writer,
                   cReq, cSnd, reqVars, histVars>>

\* the Sender that guard.clone() yields for caller c
ReadValueAsAsked(c) == req[cReq[c]].asked

ReadValue(c) == slot

\* the read guards held once caller c's sender() has returned: drop(guard)
\* comes before the Sender is handed to request
GuardsAfterSenderKept(c) == readers

GuardsAfterSender(c) == readers \ {c}

\* let sender = guard.clone(); drop(guard)
ReadClone(c) ==
    /\ cPc[c] = "reading"
    /\ cSnd' = [cSnd EXCEPT ![c] = ReadValue(c)]
    /\ req' = [req EXCEPT ![cReq[c]].to = ReadValue(c)]
    /\ readers' = GuardsAfterSender(c)
    /\ cPc' = [cPc EXCEPT ![c] = "send"]
    /\ UNCHANGED <<handles, rawVars, groupVars, graphVars, fsmVars, timeVars, paramVars, startRes, actorVars, monVars, slot, writer,
                   cReq, reply, result, histVars>>

\* Sender::try_send on instance i's channel: the closed channel is reported
\* before the full one
TrySendNeverFull(i) ==
    IF Closed(i) THEN "Closed" ELSE "Ok"

try_send(i) ==
    IF Closed(i) THEN "Closed" ELSE IF Full(i) THEN "Full" ELSE "Ok"

\* Sender::send(msg).await on instance i's channel: an error on the closed
\* channel, Ok once there is room, pending otherwise
SendClosedOnFull(i) ==
    IF Closed(i) \/ Full(i) THEN "Closed" ELSE "Ok"

send(i) ==
    IF Closed(i) THEN "Closed" ELSE IF Full(i) THEN "Pending" ELSE "Ok"

DeliveryIgnoresPolicy(c) == try_send(cSnd[c])

Delivery(c) ==
    IF req[cReq[c]].pol = "FailFast" THEN try_send(cSnd[c]) ELSE send(cSnd[c])

\* request: the match on self.send_policy
Send(c) ==
    /\ cPc[c] = "send"
    /\ Delivery(c) # "Pending"
    /\ IF Delivery(c) = "Ok"
       THEN /\ mailbox' = [mailbox EXCEPT ![cSnd[c]] = Append(@, cReq[c])]
            /\ cPc' = [cPc EXCEPT ![c] = "await"]
            /\ UNCHANGED <<cReq, cSnd, result, deadline>>
       ELSE /\ Finish(c, Err(IF Delivery(c) = "Full" THEN "MailboxFull" ELSE "SendFailed"))
            /\ UNCHANGED mailbox
    /\ UNCHANGED <<handles, rawVars, groupVars, graphVars, fsmVars, now, delayed, paramVars, startRes, aPc, aMsg, state, log, monVars, lockVars,
                   req, reply, histVars>>

\* request: reply_rx.await.map_err(|_| ResponseDropped)
ReplyOutcomeDroppedIsUnit(rp) ==
    IF rp.tag = "sent" THEN Ok(rp.v) ELSE Ok(0)

ReplyOutcome(rp) ==
    IF rp.tag = "sent" THEN Ok(rp.v) ELSE Err("ResponseDropped")

ReceiveReply(c) ==
    /\ cPc[c] = "await"
    /\ reply[cReq[c]] # Pending
    /\ Finish(c, ReplyOutcome(reply[cReq[c]]))
    /\ UNCHANGED <<handles, rawVars, groupVars, graphVars, fsmVars, now, delayed, paramVars, startRes, actorVars, monVars, lockVars, req, reply, histVars>>

\* the request future as a timeout that only wraps reply_rx.await would see it
RequestPendingOnReplyOnly(c) == cPc[c] = "await" /\ reply[cReq[c]] = Pending

\* the request future is pending: on the slot's lock, on a full mailbox, or on
\* the reply
RequestPending(c) ==
    \/ cPc[c] = "read" /\ writer
    \/ cPc[c] = "send" /\ Delivery(c) = "Pending"
    \/ cPc[c] = "await" /\ reply[cReq[c]] = Pending

\* the mailboxes after caller c's request future is dropped: dropping the
\* future drops the reply receiver and nothing else
MailboxAfterTimeoutRetracts(c) ==
    [i \in Inst |-> SelectSeq(mailbox[i], LAMBDA r : r # cReq[c])]

MailboxAfterTimeout(c) == mailbox

\* request_with_timeout: the deadline passes while the request future is pending;
\* the future is dropped, a message already enqueued stays in the mailbox
Timeout(c) ==
    /\ cReq[c] # 0
    /\ RequestPending(c)
    /\ Finish(c, Err("Timeout"))
    /\ mailbox' = MailboxAfterTimeout(c)
    /\ UNCHANGED <<handles, rawVars, groupVars, graphVars, fsmVars, now, delayed, paramVars, startRes, aPc, aMsg, state, log,
                   monVars, lockVars, req, reply, histVars>>

\* ------------------------------------------------------------- spawn_actor's loop
\* the loop is at rx.recv().await: only before the first message and after the
\* future of the handler for the previous one has completed
LoopAwaitsRecvWhileWaiting(i) == aPc[i] \in {"recv", "held", "delaying"}

LoopAwaitsRecv(i) == aPc[i] = "recv"

\* rx.recv().await returned Some(msg)
Recv(i) ==
    /\ LoopAwaitsRecv(i)
    /\ mailbox[i] # <<>>
    /\ aMsg' = [aMsg EXCEPT ![i] = Head(mailbox[i])]
    /\ mailbox' = [mailbox EXCEPT ![i] = Tail(@)]
    /\ aPc' = [aPc EXCEPT ![i] = "handling"]
    /\ UNCHANGED <<handles, rawVars, groupVars, graphVars, fsmVars, timeVars, paramVars, startRes, state, log, monVars, lockVars, callerVars,
                   reqVars, histVars>>

\* the counter after the handler has run on request r's message
HandlerStateOverwrites(s, m) == IF m.kind = "Add" THEN m.delta ELSE s

HandlerState(s, m) == IF m.kind = "Add" THEN s + m.delta ELSE s

\* the value the handler puts into the reply slot
HandlerReplyOwnDelta(s, m) == IF m.kind = "Add" THEN m.delta ELSE s

HandlerReply(s, m) ==
    IF m.kind \in {"Add", "Get"} THEN HandlerState(s, m) ELSE 0

\* where the task goes once the handler's future is done: back to recv, out of
\* the loop with StoppedByMessage, or unwinding from panic!
HandlerNextStopContinues(m) ==
    IF m.kind = "CrashNow" THEN "exitPanic" ELSE "recv"

HandlerNextCrashReturns(m) ==
    IF m.kind = "Stop" THEN "exitStop" ELSE "recv"

HandlerNext(m) ==
    IF m.kind = "Stop" THEN "exitStop"
    ELSE IF m.kind = "CrashNow" THEN "exitPanic"
    ELSE IF m.kind = "Hold" THEN "held"
    ELSE IF m.kind = "DelayGet" THEN "delaying"
    ELSE "recv"

\* oneshot Sender::send: the value is stored unless the receiving half is gone
\* (the caller of request r has already returned)
ReplySendToPrevious(r, v) ==
    IF result[r] = NoResult THEN [reply EXCEPT ![IF r > 1 THEN r - 1 ELSE r] = Sent(v)] ELSE reply

ReplySend(r, v) ==
    IF result[r] = NoResult THEN [reply EXCEPT ![r] = Sent(v)] ELSE reply

\* the `delayed` tuple the DelayGet arm hands to the handler's future: the
\* reply slot of request r, the counter as it is now, and the end of the sleep
HandlerDelayedReadsLater(i, r) == [r |-> r, v |-> 0, wake |-> now + req[r].delay]

HandlerDelayed(i, r) == [r |-> r, v |-> state[i], wake |-> now + req[r].delay]

\* the arms that call reply.send before they return or panic: all but Hold,
\* which has no reply slot, and DelayGet, whose future sends after its sleep
RepliesInArmNotCrashNow(m) == m.kind \notin {"Hold", "DelayGet", "CrashNow"}

RepliesInArm(m) == m.kind \notin {"Hold", "DelayGet"}

\* handler(&mut state, msg) for the counter's arms up to the first await of
\* the future it returns: Add / Get / Stop / CrashNow are done then, Hold and
\* DelayGet wait
Handle(i) ==
    /\ aPc[i] = "handling"
    /\ LET r == aMsg[i]
           m == req[r]
       IN /\ state' = [state EXCEPT ![i] = HandlerState(@, m)]
          /\ reply' = IF RepliesInArm(m) THEN ReplySend(r, HandlerReply(state[i], m))
                       ELSE reply
          /\ delayed' = IF m.kind = "DelayGet"
                         THEN [delayed EXCEPT ![i] = HandlerDelayed(i, r)]
                         ELSE delayed
          /\ aPc' = [aPc EXCEPT ![i] = HandlerNext(m)]
          /\ log' = [log EXCEPT ![i] = Append(@, r)]
    /\ aMsg' = [aMsg EXCEPT ![i] = 0]
    /\ UNCHANGED <<handles, rawVars, groupVars, graphVars, fsmVars, now, deadline, paramVars, startRes, mailbox, monVars, lockVars, callerVars,
                   req, result, histVars>>

\* the replies after instance i's Receiver is dropped: every queued message is
\* dropped with its reply slot
DropQueuedNothing(i) == reply

DropQueued(i) ==
    [r \in DOMAIN reply |->
        IF (\E k \in DOMAIN mailbox[i] : mailbox[i][k] = r) /\ reply[r] = Pending
        THEN Dropped ELSE reply[r]]

\* the task ends: the loop returned StoppedByMessage or the panic unwound; the
\* Receiver is dropped and the JoinHandle becomes ready
Exit(i) ==
    /\ aPc[i] \in {"exitStop", "exitPanic"}
    /\ aPc' = [aPc EXCEPT ![i] = IF @ = "exitStop" THEN "stopped" ELSE "panicked"]
    /\ reply' = DropQueued(i)
    /\ mailbox' = [mailbox EXCEPT ![i] = <<>>]
    /\ UNCHANGED <<handles, rawVars, groupVars, graphVars, fsmVars, timeVars, paramVars, startRes, aMsg, state, log, monVars, lockVars,
                   callerVars, req, result, histVars>>

\* ------------------------------------------------------------- the tests' Hold
\* sender.send(CounterMessage::Hold { started, release }).await.unwrap() on a
\* Sender cloned from the slot: the message carries no reply slot, and the send
\* completes once the mailbox has room
SendHold ==
    /\ startRes = "Ok"
    /\ \A r \in DOMAIN req : req[r].kind # "Hold"
    /\ send(slot) = "Ok"
    /\ req' = Append(req, [caller |-> "test", kind |-> "Hold", delta |-> 0,
                           pol |-> "Backpressure", asked |-> slot, to |-> slot,
                           seen |-> Snapshot])
    /\ reply' = Append(reply, Pending)
    /\ result' = Append(result, Ok(0))
    /\ mailbox' = [mailbox EXCEPT ![slot] = Append(@, Len(req) + 1)]
    /\ UNCHANGED <<handles, rawVars, groupVars, graphVars, fsmVars, timeVars, paramVars, startRes, aPc, aMsg, state, log, monVars, lockVars,
                   callerVars, histVars>>

\* release_tx.send(()): release.await in the Hold arm's future completes and
\* the handler returns Continue
Release(i) ==
    /\ aPc[i] = "held"
    /\ aPc' = [aPc EXCEPT ![i] = "recv"]
    /\ UNCHANGED <<handles, rawVars, groupVars, graphVars, fsmVars, timeVars, paramVars, startRes, aMsg, state, mailbox, log, monVars, lockVars,
                   callerVars, reqVars, histVars>>

\* ------------------------------------------------------------- monitor_loop
\* what monitor_loop does with the JoinHandle's result
MonitorDecisionRestartsClean(j) ==
    IF allows_restart(policy, attempts) THEN "restart" ELSE "return"

MonitorDecision(j) ==
    IF aPc[j] \in {"stopped", "allDropped"} THEN "return"
    ELSE IF allows_restart(policy, attempts) THEN "restart" ELSE "return"

\* where monitor_loop goes with the factory's result r: on to the swap, or return
MonitorAfterFactoryRetries(r) == IF r.ok THEN "lock" ELSE "join"

MonitorAfterFactory(r) == IF r.ok THEN "lock" ELSE "done"

\* join.await is ready: return, or count the attempt and call the factory
MonitorJoin ==
    /\ monPc = "join"
    /\ Terminated(monJoin)
    /\ IF MonitorDecision(monJoin) = "return"
       THEN /\ monPc' = "done"
            /\ UNCHANGED <<attempts, newTx, aPc, state, histVars>>
       ELSE /\ attempts' = attempts + 1
            /\ factoryCalls' = factoryCalls + 1
            /\ \E r \in FactoryResults :
                /\ monPc' = MonitorAfterFactory(r)
                /\ IF r.ok
                   THEN /\ aPc' = [aPc EXCEPT ![NextInst] = "recv"]
                        /\ state' = [state EXCEPT ![NextInst] = NewInstanceState(state[monJoin])]
                        /\ spawned' = spawned + 1
                        /\ newTx' = NextInst
                        /\ UNCHANGED restartFailed
                   ELSE /\ restartFailed' = TRUE
                        /\ UNCHANGED <<aPc, state, spawned, newTx>>
    /\ UNCHANGED <<handles, rawVars, groupVars, graphVars, fsmVars, timeVars, paramVars, startRes, aMsg, mailbox, log, monJoin, lockVars,
                   callerVars, reqVars>>

\* sender_slot.write().await
MonitorLock ==
    /\ monPc = "lock"
    /\ WriteReady
    /\ writer' = TRUE
    /\ monPc' = "write"
    /\ UNCHANGED <<handles, rawVars, groupVars, graphVars, fsmVars, timeVars, paramVars, startRes, actorVars, attempts, monJoin, newTx, slot,
                   readers, callerVars, reqVars, histVars>>

\* *slot = new_tx; the guard is dropped; join = new_join
MonitorSwap ==
    /\ monPc = "write"
    /\ slot' = newTx
    /\ writer' = FALSE
    /\ monJoin' = newTx
    /\ newTx' = 0
    /\ monPc' = "join"
    /\ UNCHANGED <<handles, rawVars, groupVars, graphVars, fsmVars, timeVars, paramVars, startRes, actorVars, attempts, readers, callerVars,
                   reqVars, histVars>>

\* ------------------------------------------------------------- specification
Next ==
    \/ Start
    \/ \E c \in Callers : \E m \in CallerMessages(c) : BeginRequest(c, m)
    \/ \E c \in Callers : Send(c)
    \/ \E c \in Callers : ReceiveReply(c)
    \/ \E c \in Callers : Timeout(c)
    \/ \E i \in Inst : Recv(i)
    \/ \E i \in Inst : Handle(i)
    \/ \E i \in Inst : Exit(i)
    \/ MonitorJoin
    \/ MonitorLock
    \/ MonitorSwap

Spec == Init /\ [][Next]_vars

\* the scheduler runs every task that can run: a task that is ending ends, and
\* the monitor task proceeds whenever its await is ready
FairSpec ==
    /\ Spec
    /\ \A i \in Inst : WF_vars(Exit(i))
    /\ WF_vars(MonitorJoin)
    /\ WF_vars(MonitorLock)
    /\ WF_vars(MonitorSwap)

\* ------------------------------------------------------------- unsupervised actor
\* spawn_actor called directly (no Supervisor), with a handler that counts the
\* messages and returns Stop on the messages marked so
RawEnded == rawPc \in {"StoppedByMessage", "AllSendersDropped"}

\* the number of sends started through Sender s
RawSentBy(s) == Cardinality({k \in DOMAIN rawStarted : rawStarted[k].from = s})

RawSpawn ==
    /\ rawPc = "none"
    /\ IF spawn_actor(capacity).ok
       THEN rawPc' = "recv" /\ rawSenders' = {"s1"}
       ELSE rawPc' = spawn_actor(capacity).err /\ UNCHANGED rawSenders
    /\ UNCHANGED <<capacity, counterVars, timeVars, groupVars, graphVars, fsmVars, rawQueue, rawMsg, rawState, rawSending,
                   rawStarted, rawHandled, rawFailed>>

\* tx.clone()
RawClone(s, t) ==
    /\ s \in rawSenders
    /\ t \notin rawSenders
    /\ rawSenders' = rawSenders \cup {t}
    /\ UNCHANGED <<capacity, counterVars, timeVars, groupVars, graphVars, fsmVars, rawPc, rawQueue, rawMsg, rawState, rawSending,
                   rawStarted, rawHandled, rawFailed>>

\* tx.send(msg) is called on Sender s
RawSendStart(s, stop) ==
    /\ s \in rawSenders
    /\ rawSending[s] = NoMsg
    /\ RawSentBy(s) < MaxMsgs
    /\ LET m == [from |-> s, n |-> RawSentBy(s) + 1, stop |-> stop]
       IN /\ rawSending' = [rawSending EXCEPT ![s] = m]
          /\ rawStarted' = Append(rawStarted, m)
    /\ UNCHANGED <<capacity, counterVars, timeVars, groupVars, graphVars, fsmVars, rawPc, rawQueue, rawMsg, rawState, rawSenders,
                   rawHandled, rawFailed>>

\* Receiver::recv on the queue q: the message it returns and what stays queued
RawPopLast(q) == [msg |-> q[Len(q)], rest |-> SubSeq(q, 1, Len(q) - 1)]

RawPop(q) == [msg |-> Head(q), rest |-> Tail(q)]

\* tx.send(msg).await completes: SendError on the closed channel, the message
\* enqueued once there is room
RawSendDone(s) ==
    /\ rawSending[s] # NoMsg
    /\ RawEnded \/ Len(rawQueue) < capacity
    /\ IF RawEnded
       THEN rawFailed' = rawFailed \cup {rawSending[s]} /\ UNCHANGED rawQueue
       ELSE rawQueue' = Append(rawQueue, rawSending[s]) /\ UNCHANGED rawFailed
    /\ rawSending' = [rawSending EXCEPT ![s] = NoMsg]
    /\ UNCHANGED <<capacity, counterVars, timeVars, groupVars, graphVars, fsmVars, rawPc, rawMsg, rawState, rawSenders,
                   rawStarted, rawHandled>>

\* drop(tx)
RawDrop(s) ==
    /\ s \in rawSenders
    /\ rawSending[s] = NoMsg
    /\ rawSenders' = rawSenders \ {s}
    /\ UNCHANGED <<capacity, counterVars, timeVars, groupVars, graphVars, fsmVars, rawPc, rawQueue, rawMsg, rawState, rawSending,
                   rawStarted, rawHandled, rawFailed>>

\* rx.recv().await returned Some(msg)
RawRecv ==
    /\ rawPc = "recv"
    /\ rawQueue # <<>>
    /\ rawMsg' = RawPop(rawQueue).msg
    /\ rawQueue' = RawPop(rawQueue).rest
    /\ rawPc' = "handling"
    /\ UNCHANGED <<capacity, counterVars, timeVars, groupVars, graphVars, fsmVars, rawState, rawSenders, rawSending,
                   rawStarted, rawHandled, rawFailed>>

\* when rx.recv().await returns None: the queue is empty and no Sender is left
RawRecvNoneReadyEarly == rawSenders = {}

RawRecvNoneReady == rawQueue = <<>> /\ rawSenders = {}

\* rx.recv().await returned None: the loop ends with AllSendersDropped
RawRecvNone ==
    /\ rawPc = "recv"
    /\ RawRecvNoneReady
    /\ rawPc' = "AllSendersDropped"
    /\ rawQueue' = <<>>
    /\ UNCHANGED <<capacity, counterVars, timeVars, groupVars, graphVars, fsmVars, rawMsg, rawState, rawSenders, rawSending,
                   rawStarted, rawHandled, rawFailed>>

\* handler(&mut state, msg).await: Continue, or Stop and the loop returns
\* StoppedByMessage, dropping the Receiver and what is queued
RawHandle ==
    /\ rawPc = "handling"
    /\ rawState' = rawState + 1
    /\ rawHandled' = Append(rawHandled, rawMsg)
    /\ rawMsg' = NoMsg
    /\ IF rawMsg.stop
       THEN rawPc' = "StoppedByMessage" /\ rawQueue' = <<>>
       ELSE rawPc' = "recv" /\ UNCHANGED rawQueue
    /\ UNCHANGED <<capacity, counterVars, timeVars, groupVars, graphVars, fsmVars, rawSenders, rawSending, rawStarted, rawFailed>>

RawNext ==
    \/ RawSpawn
    \/ \E s, t \in Senders : RawClone(s, t)
    \/ \E s \in Senders : \E stop \in BOOLEAN : RawSendStart(s, stop)
    \/ \E s \in Senders : RawSendDone(s)
    \/ \E s \in Senders : RawDrop(s)
    \/ RawRecv
    \/ RawRecvNone
    \/ RawHandle

RawInit ==
    /\ capacity \in 0..MaxRawCapacity
    /\ policy = [kind |-> "Never", n |-> 0]
    /\ NothingSpawned

RawSpec == RawInit /\ [][RawNext]_vars

\* the scheduler runs the actor's task whenever its await is ready
FairRawSpec ==
    /\ RawSpec
    /\ WF_vars(RawRecv)
    /\ WF_vars(RawRecvNone)
    /\ WF_vars(RawHandle)

\* ------------------------------------------------------------- the sender slot's lock
\* the supervised counter under MaxRetries with sender() taken step by step:
\* the read guard is requested, granted, and dropped after the clone
\* (capacity 1; c1 crashes the actor, c2 adds)
LockMessages(c) ==
    {m \in CounterMessage : m.kind = (IF c = "c1" THEN "CrashNow" ELSE "Add")}

LockInit ==
    /\ capacity = 1
    /\ policy \in {p \in RestartPolicy : p.kind = "MaxRetries" /\ p.n >= 1}
    /\ NothingSpawned

LockNext ==
    \/ Start
    \/ \E c \in Callers : \E m \in LockMessages(c) : SenderCall(c, m)
    \/ \E c \in Callers : ReadAcquire(c)
    \/ \E c \in Callers : ReadClone(c)
    \/ \E c \in Callers : Send(c)
    \/ \E c \in Callers : ReceiveReply(c)
    \/ \E c \in Callers : Timeout(c)
    \/ \E i \in Inst : Recv(i)
    \/ \E i \in Inst : Handle(i)
    \/ \E i \in Inst : Exit(i)
    \/ MonitorJoin
    \/ MonitorLock
    \/ MonitorSwap

LockSpec == LockInit /\ [][LockNext]_vars

\* the scheduler runs the monitor task and a caller inside sender(), which has
\* no await between the guard and its drop; the RwLock queues its waiters
\* fairly, so a writer that can be served again and again is served
FairLockSpec ==
    /\ LockSpec
    /\ \A c \in Callers : WF_vars(ReadClone(c))
    /\ SF_vars(MonitorLock)
    /\ WF_vars(MonitorSwap)

\* ------------------------------------------------------------- dropped handles
\* who holds the Arc of the sender slot: the CounterHandle clones, and the
\* monitor_loop task from its spawn to its return
SlotOwnersHandlesOnly == handles

SlotOwners ==
    handles \cup (IF monPc \in {"join", "lock", "write"} THEN {"monitor"} ELSE {})

\* the Senders of instance i's channel that are not dropped: the one in the
\* slot while the slot has an owner, monitor_loop's new_tx before the swap,
\* and the clone a request in flight took from the slot
SendersOf(i) ==
    (IF slot = i /\ SlotOwners # {} THEN {"slot"} ELSE {})
        \cup (IF newTx = i THEN {"new_tx"} ELSE {})
        \cup {c \in Callers : cReq[c] # 0 /\ cSnd[c] = i}

\* a request on caller c's handle, which c still has
HandleRequest(c, m) ==
    /\ c \in handles
    /\ BeginRequest(c, m)

\* caller c drops its CounterHandle; no request borrows it
DropHandle(c) ==
    /\ startRes = "Ok"
    /\ c \in handles
    /\ cPc[c] = "idle"
    /\ handles' = handles \ {c}
    /\ UNCHANGED <<rawVars, groupVars, graphVars, fsmVars, timeVars, paramVars, startRes, actorVars,
                   monVars, lockVars, callerVars, reqVars, histVars>>

\* rx.recv().await of the loop returns: Some(msg) when a message is queued,
\* None when the mailbox is empty and every Sender is dropped, and the loop
\* then ends with ExitReason::AllSendersDropped
RecvOrNone(i) ==
    /\ LoopAwaitsRecv(i)
    /\ mailbox[i] # <<>> \/ SendersOf(i) = {}
    /\ IF mailbox[i] # <<>>
       THEN /\ aMsg' = [aMsg EXCEPT ![i] = Head(mailbox[i])]
            /\ mailbox' = [mailbox EXCEPT ![i] = Tail(@)]
            /\ aPc' = [aPc EXCEPT ![i] = "handling"]
       ELSE /\ aPc' = [aPc EXCEPT ![i] = "allDropped"]
            /\ UNCHANGED <<aMsg, mailbox>>
    /\ UNCHANGED <<handles, rawVars, groupVars, graphVars, fsmVars, timeVars, paramVars, startRes,
                   state, log, monVars, lockVars, callerVars, reqVars, histVars>>

\* the supervised counter with capacity 1 whose handles crash it, add to it
\* and are dropped one by one
DropNext ==
    \/ Start
    \/ \E c \in Callers : \E m \in LockMessages(c) : HandleRequest(c, m)
    \/ \E c \in Callers : DropHandle(c)
    \/ \E c \in Callers : Send(c)
    \/ \E c \in Callers : ReceiveReply(c)
    \/ \E c \in Callers : Timeout(c)
    \/ \E i \in Inst : RecvOrNone(i)
    \/ \E i \in Inst : Handle(i)
    \/ \E i \in Inst : Exit(i)
    \/ MonitorJoin
    \/ MonitorLock
    \/ MonitorSwap

DropInit == Init /\ capacity = 1

DropSpec == DropInit /\ [][DropNext]_vars

\* ------------------------------------------------------------- the tests' counters
\* spawn_counter(capacity, RestartPolicy::Never) driven as the tests drive it
NeverInit == Init /\ policy.kind = "Never"

\* adds on the two handles, a Hold sent on the raw Sender, and its release
HoldNext ==
    \/ Start
    \/ \E c \in Callers : \E m \in HoldMessages : BeginRequest(c, m)
    \/ SendHold
    \/ \E c \in Callers : Send(c)
    \/ \E c \in Callers : ReceiveReply(c)
    \/ \E c \in Callers : Timeout(c)
    \/ \E i \in Inst : Recv(i)
    \/ \E i \in Inst : Handle(i)
    \/ \E i \in Inst : Release(i)

HoldSpec == NeverInit /\ [][HoldNext]_vars

\* the scheduler runs every task that can run: the actor's loop and a caller
\* whose send or reply is ready; a request's deadline and the test's release
\* are left to the environment
FairHoldSpec ==
    /\ HoldSpec
    /\ \A i \in Inst : WF_vars(Recv(i)) /\ WF_vars(Handle(i))
    /\ \A c \in Callers : WF_vars(Send(c)) /\ WF_vars(ReceiveReply(c))

\* adds on the two handles and stop on the spawn_counter handle
StopNext ==
    \/ Start
    \/ \E c \in Callers : \E m \in StopMessages(c) : BeginRequest(c, m)
    \/ \E c \in Callers : Send(c)
    \/ \E c \in Callers : ReceiveReply(c)
    \/ \E c \in Callers : Timeout(c)
    \/ \E i \in Inst : Recv(i)
    \/ \E i \in Inst : Handle(i)
    \/ \E i \in Inst : Exit(i)
    \/ MonitorJoin

StopSpec == NeverInit /\ [][StopNext]_vars

FairStopSpec ==
    /\ StopSpec
    /\ \A i \in Inst : WF_vars(Recv(i)) /\ WF_vars(Handle(i)) /\ WF_vars(Exit(i))
    /\ \A c \in Callers : WF_vars(Send(c)) /\ WF_vars(ReceiveReply(c))

\* adds and gets issued one after another on the spawn_counter handle
SeqNext ==
    \/ Start
    \/ \E m \in SeqMessages : BeginRequest("c1", m)
    \/ Send("c1")
    \/ ReceiveReply("c1")
    \/ Timeout("c1")
    \/ \E i \in Inst : Recv(i)
    \/ \E i \in Inst : Handle(i)

SeqSpec == NeverInit /\ [][SeqNext]_vars

\* ------------------------------------------------------------- request_with_timeout
\* let effective_timeout = timeout_opt.unwrap_or(self.default_timeout)
EffectiveTimeoutDefaultOnly(timeout_opt) == DEFAULT_TIMEOUT

effective_timeout(timeout_opt) ==
    IF timeout_opt = None THEN DEFAULT_TIMEOUT ELSE timeout_opt

\* request_with_timeout(timeout_opt, make_msg) on caller c's handle is first
\* polled: timeout(effective_timeout, fut) starts its timer, and the request
\* builds its message and clones the published Sender
TimedRequest(c, m) ==
    /\ startRes = "Ok"
    /\ cPc[c] = "idle"
    /\ Len(req) < MaxTimedReqs
    /\ ~writer
    /\ req' = Append(req, [caller |-> c, kind |-> m.kind, delta |-> m.delta,
                           pol |-> HandlePolicy[c], asked |-> slot, to |-> slot,
                           seen |-> Snapshot, delay |-> m.delay,
                           tmo |-> m.tmo, at |-> now])
    /\ reply' = Append(reply, Pending)
    /\ result' = Append(result, NoResult)
    /\ cPc' = [cPc EXCEPT ![c] = "send"]
    /\ cReq' = [cReq EXCEPT ![c] = Len(req) + 1]
    /\ cSnd' = [cSnd EXCEPT ![c] = slot]
    /\ deadline' = [deadline EXCEPT ![c] = now + effective_timeout(m.tmo)]
    /\ UNCHANGED <<handles, rawVars, groupVars, graphVars, fsmVars, now, delayed, paramVars, startRes, actorVars, monVars,
                   lockVars, histVars>>

\* Timeout::poll polls the request future first and its timer only when the
\* future is pending: the timer has elapsed and the call returns Err(Timeout)
Elapsed(c) ==
    /\ deadline[c] # 0
    /\ now >= deadline[c]
    /\ Timeout(c)

\* the future of a DelayGet after its sleep: let _ = reply.send(value), and the
\* handler's future is done with Continue
DelayDone(i) ==
    /\ aPc[i] = "delaying"
    /\ reply' = ReplySend(delayed[i].r, delayed[i].v)
    /\ delayed' = [delayed EXCEPT ![i] = NoDelay]
    /\ aPc' = [aPc EXCEPT ![i] = "recv"]
    /\ UNCHANGED <<handles, rawVars, groupVars, graphVars, fsmVars, now, deadline, paramVars, startRes, aMsg, state, mailbox,
                   log, monVars, lockVars, callerVars, req, result, histVars>>

\* sleep(delay).await is over
Wake(i) ==
    /\ now >= delayed[i].wake
    /\ DelayDone(i)

\* some task can run without the clock moving
TaskReady ==
    \/ \E c \in Callers :
        \/ cPc[c] = "send" /\ Delivery(c) # "Pending"
        \/ cPc[c] = "await" /\ reply[cReq[c]] # Pending
        \/ cReq[c] # 0 /\ now >= deadline[c]
    \/ \E i \in Inst :
        \/ aPc[i] = "recv" /\ mailbox[i] # <<>>
        \/ aPc[i] = "handling"
        \/ aPc[i] = "delaying" /\ now >= delayed[i].wake
        \/ aPc[i] \in {"exitStop", "exitPanic"}
    \/ monPc = "join" /\ Terminated(monJoin)

\* the timers that are armed: the deadlines of the requests in flight and the
\* sleeps of the DelayGet futures
Timers ==
    {deadline[c] : c \in {d \in Callers : cReq[d] # 0}}
        \cup {delayed[i].wake : i \in {j \in Inst : aPc[j] = "delaying"}}

\* the clock of the tests' runtime: time passes while every task is suspended,
\* up to the timer that elapses first
Advance ==
    /\ ~TaskReady
    /\ Timers # {}
    /\ now' = CHOOSE t \in Timers : \A u \in Timers : t <= u
    /\ UNCHANGED <<capacity, counterVars, rawVars, groupVars, graphVars, fsmVars, deadline, delayed>>

TimedNext ==
    \/ Start
    \/ \E c \in Callers : \E m \in TimedCalls(c) : TimedRequest(c, m)
    \/ \E c \in Callers : Send(c)
    \/ \E c \in Callers : ReceiveReply(c)
    \/ \E c \in Callers : Elapsed(c)
    \/ \E i \in Inst : Recv(i)
    \/ \E i \in Inst : Handle(i)
    \/ \E i \in Inst : Wake(i)
    \/ Advance

TimedSpec == NeverInit /\ [][TimedNext]_vars

\* the scheduler runs every task that can run, and the clock moves on while
\* all of them are suspended
FairTimedSpec ==
    /\ TimedSpec
    /\ \A c \in Callers : WF_vars(Send(c)) /\ WF_vars(ReceiveReply(c)) /\ WF_vars(Elapsed(c))
    /\ \A i \in Inst : WF_vars(Recv(i)) /\ WF_vars(Handle(i)) /\ WF_vars(Wake(i))
    /\ WF_vars(Advance)

\* the timed calls together with crash_now on the spawn_counter handle
OutcomeCalls(c) ==
    TimedCalls(c) \cup
        (IF c = "c1" THEN {[kind |-> "CrashNow", delta |-> 0, delay |-> 0, tmo |-> None]} ELSE {})

OutcomeNext ==
    \/ Start
    \/ \E c \in Callers : \E m \in OutcomeCalls(c) : TimedRequest(c, m)
    \/ \E c \in Callers : Send(c)
    \/ \E c \in Callers : ReceiveReply(c)
    \/ \E c \in Callers : Elapsed(c)
    \/ \E i \in Inst : Recv(i)
    \/ \E i \in Inst : Handle(i)
    \/ \E i \in Inst : Wake(i)
    \/ \E i \in Inst : Exit(i)
    \/ MonitorJoin
    \/ Advance

OutcomeSpec == NeverInit /\ [][OutcomeNext]_vars

\* the scheduler runs every task that can run, and the clock moves on while
\* all of them are suspended
FairOutcomeSpec ==
    /\ OutcomeSpec
    /\ \A c \in Callers : WF_vars(Send(c)) /\ WF_vars(ReceiveReply(c)) /\ WF_vars(Elapsed(c))
    /\ \A i \in Inst : WF_vars(Recv(i)) /\ WF_vars(Handle(i)) /\ WF_vars(Wake(i)) /\ WF_vars(Exit(i))
    /\ WF_vars(MonitorJoin)
    /\ WF_vars(Advance)

\* ------------------------------------------------------------- echo agents and group manager
\* format!("{}[{}]: {}", state.name, state.turns, input)
Format(name, n, inp) == <<[name |-> name, turns |-> n]>> \o inp

\* state.next_idx = (idx + 1) % len
NextIdxStays(idx, len) == idx

NextIdx(idx, len) == (idx + 1) % len

\* the Run arm's loop: the agents picked for max_turns turns starting at idx
RECURSIVE Picked(_, _, _)
Picked(idx, max_turns, len) ==
    IF max_turns = 0 THEN <<>>
    ELSE <<idx>> \o Picked(NextIdx(idx, len), max_turns - 1, len)

\* next_idx after that loop
RECURSIVE AfterPicks(_, _, _)
AfterPicks(idx, max_turns, len) ==
    IF max_turns = 0 THEN idx ELSE AfterPicks(NextIdx(idx, len), max_turns - 1, len)

\* what the loop does once the manager's handler future is done: back to recv,
\* or out of the loop with StoppedByMessage
ManagerCtrlStopContinues(kind) == "recv"

ManagerCtrl(kind) == IF kind = "Stop" THEN "exitStop" ELSE "recv"

\* oneshot Sender::send on call r's reply channel: the value is stored unless
\* the caller has already returned
GReplySend(r, v) ==
    IF gRes[r] = GNoResult THEN [gReply EXCEPT ![r] = GSent(v)] ELSE gReply

\* spawn_echo_agent for each of k agents, then spawn_group_manager(agents,
\* capacity, policy): InitError for an empty Vec, else Supervisor::start
spawn_group_manager(k) ==
    /\ gStart = "none"
    /\ agents' = k
    /\ IF k = 0
       THEN gStart' = "InitError" /\ UNCHANGED <<mPc, ePc>>
       ELSE IF spawn_actor(capacity).ok
       THEN /\ gStart' = "Ok"
            /\ mPc' = "recv"
            /\ ePc' = [a \in AgentIds |-> IF a < k THEN "recv" ELSE "none"]
       ELSE gStart' = spawn_actor(capacity).err /\ UNCHANGED <<mPc, ePc>>
    /\ UNCHANGED <<capacity, counterVars, rawVars, timeVars, graphVars, fsmVars, turns, eBox, eOut,
                   mBox, next_idx, picked, input, outputs, mCall, calls, gReply, gRes, gPc>>

\* the turns asked for by the first n calls together
RECURSIVE TurnsAsked(_)
TurnsAsked(n) == IF n = 0 THEN 0 ELSE TurnsAsked(n - 1) + calls[n].max_turns

\* GroupManagerHandle::run(initial, max_turns) / stop() is called: the reply
\* channel and the message are built and the published Sender is cloned
GroupCall(kind, max_turns) ==
    /\ gStart = "Ok"
    /\ gPc = "idle"
    /\ Len(calls) < MaxCalls
    /\ TurnsAsked(Len(calls)) + max_turns <= MaxTurns
    /\ calls' = Append(calls, [kind |-> kind, initial |-> Hello, max_turns |-> max_turns,
                               from |-> 0, failed |-> FALSE])
    /\ gReply' = Append(gReply, GPending)
    /\ gRes' = Append(gRes, GNoResult)
    /\ gPc' = "send"
    /\ UNCHANGED <<capacity, counterVars, rawVars, timeVars, graphVars, fsmVars, agents, gStart, turns,
                   ePc, eBox, eOut, mPc, mBox, next_idx, picked, input, outputs, mCall>>

\* run / stop: sender.send(msg).await under Backpressure, outside any timeout
GroupSend ==
    /\ gPc = "send"
    /\ mPc = "stopped" \/ Len(mBox) < capacity
    /\ IF mPc = "stopped"
       THEN /\ gRes' = [gRes EXCEPT ![Len(calls)] = GErr("SendFailed")]
            /\ gPc' = "idle"
            /\ UNCHANGED mBox
       ELSE /\ mBox' = Append(mBox, Len(calls))
            /\ gPc' = "await"
            /\ UNCHANGED gRes
    /\ UNCHANGED <<capacity, counterVars, rawVars, timeVars, graphVars, fsmVars, agents, gStart, turns,
                   ePc, eBox, eOut, mPc, next_idx, picked, input, outputs, mCall, calls, gReply>>

\* what timeout(self.default_timeout, reply_rx) yields once the channel is settled
GroupReplyOutcome(rp) ==
    IF rp.tag = "sent" THEN GOk(rp.v) ELSE GErr("ResponseDropped")

\* run / stop: Ok(Ok(v)) or Ok(Err(_)) from the reply wait
GroupReceive ==
    /\ gPc = "await"
    /\ gReply[Len(calls)] # GPending
    /\ gRes' = [gRes EXCEPT ![Len(calls)] = GroupReplyOutcome(gReply[Len(calls)])]
    /\ gPc' = "idle"
    /\ UNCHANGED <<capacity, counterVars, rawVars, timeVars, graphVars, fsmVars, agents, gStart, turns,
                   ePc, eBox, eOut, mPc, mBox, next_idx, picked, input, outputs, mCall,
                   calls, gReply>>

\* run / stop: the 200 ms pass before the reply channel is settled
GroupTimeout ==
    /\ gPc = "await"
    /\ gReply[Len(calls)] = GPending
    /\ gRes' = [gRes EXCEPT ![Len(calls)] = GErr("Timeout")]
    /\ gPc' = "idle"
    /\ UNCHANGED <<capacity, counterVars, rawVars, timeVars, graphVars, fsmVars, agents, gStart, turns,
                   ePc, eBox, eOut, mPc, mBox, next_idx, picked, input, outputs, mCall,
                   calls, gReply>>

\* the manager's loop receives a message and runs its handler: the Run arm
\* picks the agents and advances next_idx, the Stop arm only keeps the reply
\* slot; then the future starts: Stop fulfils the slot and returns Stop
ManagerHandle ==
    /\ mPc = "recv"
    /\ mBox # <<>>
    /\ LET r == Head(mBox) IN
        IF calls[r].kind = "Run"
        THEN /\ picked' = Picked(next_idx, calls[r].max_turns, agents)
             /\ next_idx' = AfterPicks(next_idx, calls[r].max_turns, agents)
             /\ input' = calls[r].initial
             /\ outputs' = <<>>
             /\ mCall' = r
             /\ calls' = [calls EXCEPT ![r].from = next_idx]
             /\ mPc' = "ask"
             /\ UNCHANGED gReply
        ELSE /\ gReply' = GReplySend(r, <<>>)
             /\ mPc' = ManagerCtrl(calls[r].kind)
             /\ UNCHANGED <<picked, next_idx, input, outputs, mCall, calls>>
    /\ mBox' = Tail(mBox)
    /\ UNCHANGED <<capacity, counterVars, rawVars, timeVars, graphVars, fsmVars, agents, gStart, turns,
                   ePc, eBox, eOut, gRes, gPc>>

\* the run future: the transcript is complete and sent, or agent.respond(input)
\* is called on the next picked agent, whose send fails at once on a closed
\* mailbox (Err: the partial transcript is sent)
ManagerAsk ==
    /\ mPc = "ask"
    /\ IF picked = <<>>
       THEN /\ gReply' = GReplySend(mCall, outputs)
            /\ mPc' = ManagerCtrl("Run")
            /\ mCall' = 0
            /\ UNCHANGED <<eBox, calls>>
       ELSE IF ePc[Head(picked)] = "stopped"
       THEN /\ gReply' = GReplySend(mCall, outputs)
            /\ calls' = [calls EXCEPT ![mCall].failed = TRUE]
            /\ mPc' = ManagerCtrl("Run")
            /\ mCall' = 0
            /\ UNCHANGED eBox
       ELSE /\ Len(eBox[Head(picked)]) < EchoCapacity
            /\ eBox' = [eBox EXCEPT ![Head(picked)] = Append(@, [input |-> input, live |-> TRUE])]
            /\ mPc' = "await"
            /\ UNCHANGED <<gReply, calls, mCall>>
    /\ UNCHANGED <<capacity, counterVars, rawVars, timeVars, graphVars, fsmVars, agents, gStart, turns,
                   ePc, eOut, mBox, next_idx, picked, input, outputs, gRes, gPc>>

\* an echo agent's loop receives a Respond and runs its handler
EchoHandle(a) ==
    /\ ePc[a] = "recv"
    /\ eBox[a] # <<>>
    /\ turns' = [turns EXCEPT ![a] = @ + 1]
    /\ eOut' = IF Head(eBox[a]).live
               THEN Format(AgentNames[a + 1], turns[a] + 1, Head(eBox[a]).input)
               ELSE eOut
    /\ eBox' = [eBox EXCEPT ![a] = Tail(@)]
    /\ UNCHANGED <<capacity, counterVars, rawVars, timeVars, graphVars, fsmVars, agents, gStart, ePc,
                   mPc, mBox, next_idx, picked, input, outputs, mCall, calls, gReply, gRes, gPc>>

\* respond returned Ok(out): input = out.clone(); outputs.push(out)
ManagerGot ==
    /\ mPc = "await"
    /\ eOut # <<>>
    /\ outputs' = Append(outputs, eOut)
    /\ input' = eOut
    /\ picked' = Tail(picked)
    /\ eOut' = <<>>
    /\ mPc' = "ask"
    /\ UNCHANGED <<capacity, counterVars, rawVars, timeVars, graphVars, fsmVars, agents, gStart, turns,
                   ePc, eBox, mBox, next_idx, mCall, calls, gReply, gRes, gPc>>

\* respond returned Err: its 200 ms passed without an answer, or the agent
\* ended with the message still queued; the partial transcript is sent
ManagerRespondErr ==
    /\ mPc = "await"
    /\ eOut = <<>>
    /\ eBox' = [a \in AgentIds |->
                    [k \in DOMAIN eBox[a] |-> [eBox[a][k] EXCEPT !.live = FALSE]]]
    /\ gReply' = GReplySend(mCall, outputs)
    /\ calls' = [calls EXCEPT ![mCall].failed = TRUE]
    /\ mPc' = ManagerCtrl("Run")
    /\ mCall' = 0
    /\ UNCHANGED <<capacity, counterVars, rawVars, timeVars, graphVars, fsmVars, agents, gStart, turns,
                   ePc, eOut, mBox, next_idx, picked, input, outputs, gRes, gPc>>

\* EchoAgentHandle::stop on a clone of agent a's handle, which the caller kept
\* of the first agent: its loop handles the Stop and leaves
EchoStop(a) ==
    /\ ePc[a] = "recv"
    /\ eBox[a] = <<>>
    /\ ePc' = [ePc EXCEPT ![a] = "exitStop"]
    /\ UNCHANGED <<capacity, counterVars, rawVars, timeVars, graphVars, fsmVars, agents, gStart, turns,
                   eBox, eOut, mPc, mBox, next_idx, picked, input, outputs, mCall, calls,
                   gReply, gRes, gPc>>

\* the agent's task ends: its Receiver and the messages still queued are dropped
EchoExit(a) ==
    /\ ePc[a] = "exitStop"
    /\ ePc' = [ePc EXCEPT ![a] = "stopped"]
    /\ eBox' = [eBox EXCEPT ![a] = <<>>]
    /\ UNCHANGED <<capacity, counterVars, rawVars, timeVars, graphVars, fsmVars, agents, gStart, turns,
                   eOut, mPc, mBox, next_idx, picked, input, outputs, mCall, calls,
                   gReply, gRes, gPc>>

\* the manager's task ends after a Stop: its Receiver is dropped, and with it
\* every queued message and its reply slot
ManagerExit ==
    /\ mPc = "exitStop"
    /\ mPc' = "stopped"
    /\ gReply' = [r \in DOMAIN gReply |->
                    IF (\E k \in DOMAIN mBox : mBox[k] = r) /\ gReply[r] = GPending
                    THEN GDropped ELSE gReply[r]]
    /\ mBox' = <<>>
    /\ UNCHANGED <<capacity, counterVars, rawVars, timeVars, graphVars, fsmVars, agents, gStart, turns,
                   ePc, eBox, eOut, next_idx, picked, input, outputs, mCall, calls, gRes, gPc>>

GroupNext ==
    \/ \E k \in 0..MaxAgents : spawn_group_manager(k)
    \/ \E n \in 0..MaxTurns : GroupCall("Run", n)
    \/ GroupCall("Stop", 0)
    \/ GroupSend
    \/ GroupReceive
    \/ GroupTimeout
    \/ ManagerHandle
    \/ ManagerAsk
    \/ \E a \in AgentIds : EchoHandle(a)
    \/ ManagerGot
    \/ ManagerRespondErr
    \/ EchoStop(0)
    \/ EchoExit(0)
    \/ ManagerExit

\* a manager mailbox of capacity 0 (refused by spawn_actor) or 1
GroupInit == NeverInit /\ capacity <= 1

GroupSpec == GroupInit /\ [][GroupNext]_vars

\* ------------------------------------------------------------- GraphBuilder
\* the NodeIds passed to add_edge: those add_node can return, and one more
NodeIds == 0..MaxNodes

\* add_node: a node with no edges; its id is its index
add_node ==
    /\ built = NotBuilt
    /\ nodes < MaxNodes
    /\ nodes' = nodes + 1
    /\ out' = Append(out, <<>>)
    /\ indegree' = Append(indegree, 0)
    /\ UNCHANGED <<capacity, counterVars, rawVars, timeVars, groupVars, fsmVars, addRes, built>>

\* add_edge's check of its arguments against the node count n
ValidIdsFromOnly(from, to, n) == from < n

ValidIds(from, to, n) == ~(from >= n \/ to >= n)

\* add_edge(from, to): Err(InvalidNodeId) for an id that is no node's, else
\* the edge is pushed on out[from] and indegree[to] is incremented
add_edge(from, to) ==
    /\ built = NotBuilt
    /\ addRes.k < MaxEdges
    /\ IF ValidIds(from, to, nodes)
       THEN /\ out' = [out EXCEPT ![from + 1] = Append(@, to)]
            /\ indegree' = [indegree EXCEPT ![to + 1] = @ + 1]
            /\ addRes' = [res |-> "Ok", from |-> from, to |-> to, k |-> addRes.k + 1]
       ELSE /\ addRes' = [res |-> "InvalidNodeId", from |-> from, to |-> to, k |-> addRes.k + 1]
            /\ UNCHANGED <<out, indegree>>
    /\ UNCHANGED <<capacity, counterVars, rawVars, timeVars, groupVars, fsmVars, nodes, built>>

\* kahn_layers: the queue of the nodes k..n-1 whose in-degree is 0
RECURSIVE InitialQueue(_, _, _)
InitialQueue(k, n, indeg) ==
    IF k >= n THEN <<>>
    ELSE (IF indeg[k + 1] = 0 THEN <<k>> ELSE <<>>) \o InitialQueue(k + 1, n, indeg)

\* kahn_layers: for &next in &out[node.0], on the in-degrees and the queue
RECURSIVE KahnEdges(_, _, _, _)
KahnEdges(targets, n, indeg, q) ==
    IF targets = <<>> THEN [err |-> "none", indegree |-> indeg, q |-> q]
    ELSE LET next_i == Head(targets) IN
         IF next_i >= n \/ indeg[next_i + 1] = 0
         THEN [err |-> "InvalidGraph", indegree |-> indeg, q |-> q]
         ELSE LET dec == [indeg EXCEPT ![next_i + 1] = @ - 1] IN
              KahnEdges(Tail(targets), n, dec,
                        IF dec[next_i + 1] = 0 THEN Append(q, next_i) ELSE q)

\* kahn_layers: how many nodes the inner loop pops for one layer
LayerSizeOne(q) == 1

LayerSize(q) == Len(q)

\* kahn_layers: for _ in 0..layer_size, on [err, indegree, q, layer, seen]
RECURSIVE KahnLayer(_, _, _, _)
KahnLayer(layer_size, n, outs, st) ==
    IF layer_size = 0 \/ st.err # "none" THEN st
    ELSE LET node == Head(st.q)
             e == KahnEdges(outs[node + 1], n, st.indegree, Tail(st.q))
         IN KahnLayer(layer_size - 1, n, outs,
                      [err |-> e.err, indegree |-> e.indegree, q |-> e.q,
                       layer |-> Append(st.layer, node), seen |-> st.seen + 1])

\* kahn_layers: the check after the loop
SeenAllAlways(seen, n) == TRUE

SeenAll(seen, n) == ~(seen # n)

\* kahn_layers: while !q.is_empty(), and the result
RECURSIVE KahnWhile(_, _, _, _)
KahnWhile(n, outs, st, layers) ==
    IF st.err # "none" THEN [tag |-> st.err, layers |-> <<>>]
    ELSE IF st.q = <<>>
    THEN (IF SeenAll(st.seen, n) THEN [tag |-> "Ok", layers |-> layers]
          ELSE [tag |-> "CycleDetected", layers |-> <<>>])
    ELSE LET l == KahnLayer(LayerSize(st.q), n, outs, [st EXCEPT !.layer = <<>>])
         IN KahnWhile(n, outs, l, Append(layers, l.layer))

kahn_layers(n, outs, indeg) ==
    IF Len(outs) # n \/ Len(indeg) # n THEN [tag |-> "InvalidGraph", layers |-> <<>>]
    ELSE KahnWhile(n, outs,
                   [err |-> "none", indegree |-> indeg, q |-> InitialQueue(0, n, indeg),
                    layer |-> <<>>, seen |-> 0],
                   <<>>)

\* GraphBuilder::build consumes the builder
build ==
    /\ built = NotBuilt
    /\ built' = kahn_layers(nodes, out, indegree)
    /\ UNCHANGED <<capacity, counterVars, rawVars, timeVars, groupVars, fsmVars, nodes, out,
                   indegree, addRes>>

GraphNext ==
    \/ add_node
    \/ \E from, to \in NodeIds : add_edge(from, to)
    \/ build

\* GraphBuilder::new(): no nodes, no edges (and no actor: capacity is unused)
GraphInit == NeverInit /\ capacity = 0

GraphSpec == GraphInit /\ [][GraphNext]_vars

\* ------------------------------------------------------------- fsm_dag: the turnstile
\* the bounds of run's arguments: the length of init_events and the caps
\* tried besides the cap of test_run
MaxEvents == 3
MaxStepsArg == 3
TestCap == 10

States == {"Locked", "Unlocked"}
Events == {"Coin", "Push"}
EventSeqs == UNION {[1..n -> Events] : n \in 0..MaxEvents}
Caps == 0..MaxStepsArg \cup {TestCap}

\* step's arm for (Locked, Push) without the EnqueueCoin action
StepNoEnqueue(st, event, c) ==
    IF st = "Locked" /\ event = "Coin"
    THEN [state |-> "Unlocked", actions |-> <<"Unlock">>, ctx |-> [c EXCEPT !.coins = @ + 1]]
    ELSE IF st = "Locked" /\ event = "Push"
    THEN [state |-> "Locked", actions |-> <<"Alarm">>,
          ctx |-> [c EXCEPT !.alarms = @ + 1, !.pushes = @ + 1]]
    ELSE IF st = "Unlocked" /\ event = "Coin"
    THEN [state |-> "Unlocked", actions |-> <<"ThankYou">>, ctx |-> [c EXCEPT !.coins = @ + 1]]
    ELSE [state |-> "Locked", actions |-> <<"Lock">>, ctx |-> [c EXCEPT !.pushes = @ + 1]]

\* step(state, event, ctx): the next state, the actions and the updated Ctx
step(st, event, c) ==
    IF st = "Locked" /\ event = "Coin"
    THEN [state |-> "Unlocked", actions |-> <<"Unlock">>, ctx |-> [c EXCEPT !.coins = @ + 1]]
    ELSE IF st = "Locked" /\ event = "Push"
    THEN [state |-> "Locked", actions |-> <<"Alarm", "EnqueueCoin">>,
          ctx |-> [c EXCEPT !.alarms = @ + 1, !.pushes = @ + 1]]
    ELSE IF st = "Unlocked" /\ event = "Coin"
    THEN [state |-> "Unlocked", actions |-> <<"ThankYou">>, ctx |-> [c EXCEPT !.coins = @ + 1]]
    ELSE [state |-> "Locked", actions |-> <<"Lock">>, ctx |-> [c EXCEPT !.pushes = @ + 1]]

\* run: for action in &action_for_step, on the queue
RECURSIVE Enqueue(_, _)
Enqueue(queue, actions) ==
    IF actions = <<>> THEN queue
    ELSE Enqueue(IF Head(actions) = "EnqueueCoin" THEN Append(queue, "Coin")
                 ELSE IF Head(actions) = "EnqueuePush" THEN Append(queue, "Push")
                 ELSE queue,
                 Tail(actions))

\* run is called with a fresh Ctx: the locals before the loop
run(init_state, init_events, cap) ==
    /\ fsmPc = "idle"
    /\ fsmPc' = "loop"
    /\ fsmArgs' = [init_state |-> init_state, init_events |-> init_events, max_steps |-> cap]
    /\ fsmQ' = init_events
    /\ fsmState' = init_state
    /\ step_counter' = 0
    /\ all_actions' = <<>>
    /\ ctx' = CtxDefault
    /\ UNCHANGED <<capacity, counterVars, rawVars, timeVars, groupVars, graphVars, hit_cap, handled>>

\* one iteration of run's while loop
RunStep ==
    /\ fsmPc = "loop"
    /\ step_counter < fsmArgs.max_steps
    /\ fsmQ # <<>>
    /\ LET event == Head(fsmQ)
           s == step(fsmState, event, ctx)
       IN /\ step_counter' = step_counter + 1
          /\ fsmQ' = Enqueue(Tail(fsmQ), s.actions)
          /\ all_actions' = all_actions \o s.actions
          /\ fsmState' = s.state
          /\ ctx' = s.ctx
          /\ handled' = Append(handled, [state |-> fsmState, event |-> event])
    /\ UNCHANGED <<capacity, counterVars, rawVars, timeVars, groupVars, graphVars, fsmPc, fsmArgs, hit_cap>>

\* the loop ends, by its condition or by the break, and run returns
RunReturn ==
    /\ fsmPc = "loop"
    /\ ~(step_counter < fsmArgs.max_steps) \/ fsmQ = <<>>
    /\ hit_cap' = (step_counter = fsmArgs.max_steps /\ fsmQ # <<>>)
    /\ fsmPc' = "done"
    /\ UNCHANGED <<capacity, counterVars, rawVars, timeVars, groupVars, graphVars, fsmArgs, fsmState, fsmQ,
                   ctx, step_counter, all_actions, handled>>

FsmNext ==
    \/ \E init_state \in States, init_events \in EventSeqs, cap \in Caps :
          run(init_state, init_events, cap)
    \/ RunStep
    \/ RunReturn

\* no actor is involved: capacity is unused
FsmInit == NeverInit /\ capacity = 0

FsmSpec == FsmInit /\ [][FsmNext]_vars

\* the timed calls together with the tests' Hold and its release
WaitNext ==
    \/ Start
    \/ \E c \in Callers : \E m \in TimedCalls(c) : TimedRequest(c, m)
    \/ SendHold
    \/ \E c \in Callers : Send(c)
    \/ \E c \in Callers : ReceiveReply(c)
    \/ \E c \in Callers : Elapsed(c)
    \/ \E i \in Inst : Recv(i)
    \/ \E i \in Inst : Handle(i)
    \/ \E i \in Inst : Release(i)
    \/ \E i \in Inst : Wake(i)
    \/ Advance

WaitSpec == NeverInit /\ [][WaitNext]_vars

\* ------------------------------------------------------------- claims
Reqs == DOMAIN req
\* r2 was issued by r1's caller after r1 had returned to it
LaterSameCaller(r1, r2) == r1 < r2 /\ req[r1].caller = req[r2].caller
Budget == IF policy.kind = "MaxRetries" THEN policy.n ELSE 0
Panicked == {i \in Inst : aPc[i] = "panicked"}
\* the sum of the deltas of the first k requests instance i's handler ran on
RECURSIVE SumLog(_, _)
SumLog(i, k) == IF k = 0 THEN 0 ELSE SumLog(i, k - 1) + req[log[i][k]].delta

\* C1: the factory is invoked at most n+1 times under MaxRetries{n} and exactly
\* once under Never (once by start, then once per counted restart attempt), and
\* the attempt counter only grows
C1_FactoryCallsBounded ==
    /\ [](/\ factoryCalls <= Budget + 1
          /\ attempts <= Budget
          /\ startRes # "none" => factoryCalls = attempts + 1
          /\ (policy.kind = "Never" /\ startRes # "none") => factoryCalls = 1)
    /\ [][attempts' >= attempts /\ factoryCalls' >= factoryCalls]_vars

\* MaxRetries{1}: the one restart was made, the second instance crashed too and
\* the monitor returned without a third factory call
C1_Witness ==
    /\ policy = [kind |-> "MaxRetries", n |-> 1]
    /\ factoryCalls = 2
    /\ Cardinality(Panicked) = 2
    /\ monPc = "done"

C5_CleanStopIsFinal ==
    /\ [][(\E i \in Inst : aPc[i] = "stopped") =>
            (factoryCalls' = factoryCalls /\ attempts' = attempts /\ slot' = slot)]_vars
    /\ [][\A c \in Callers :
            (/\ cPc[c] = "send"
             /\ aPc[cSnd[c]] = "stopped"
             /\ cPc'[c] # "send")
            => result'[cReq[c]] = Err("SendFailed")]_vars
    /\ [](\A r \in Reqs : req[r].seen = "stopped" => result[r].tag \in {"none", "SendFailed"})

\* MaxRetries{n} with no restart counted yet: the instance stopped by message,
\* the monitor returned, and a Backpressure and a FailFast request issued
\* afterwards both returned SendFailed
C5_Witness ==
    /\ policy.kind = "MaxRetries"
    /\ attempts < policy.n
    /\ monPc = "done"
    /\ \E r1, r2 \in Reqs :
        /\ req[r1].seen = "stopped" /\ req[r1].pol = "Backpressure"
        /\ req[r2].seen = "stopped" /\ req[r2].pol = "FailFast"
        /\ result[r1] = Err("SendFailed")
        /\ result[r2] = Err("SendFailed")

\* C6 as stated: after a request returned SendFailed, no request issued later
\* by the same caller succeeds
C6_SendFailedIsFinal ==
    \A r1, r2 \in Reqs :
        (LaterSameCaller(r1, r2) /\ result[r1] = Err("SendFailed"))
        => result[r2].tag # "Ok"

\* C6 amended: a request returns SendFailed only when the instance whose sender
\* it cloned has terminated, and a later request of the same caller succeeds
\* only on an instance created after that one, that is only after a restart
C6_SendFailedMeansInstanceGone ==
    /\ \A r \in Reqs : result[r] = Err("SendFailed") => Terminated(req[r].to)
    /\ \A r1, r2 \in Reqs :
        (/\ LaterSameCaller(r1, r2)
         /\ result[r1] = Err("SendFailed")
         /\ result[r2].tag = "Ok")
        => req[r2].to > req[r1].to

\* a caller got SendFailed on the crashed first instance and its next request
\* succeeded on the restarted one
C6_Witness ==
    \E r1, r2 \in Reqs :
        /\ LaterSameCaller(r1, r2)
        /\ result[r1] = Err("SendFailed")
        /\ req[r1].to = 1
        /\ result[r2].tag = "Ok"
        /\ req[r2].to = 2

\* C7: when the first factory call fails, start returns Err(InitError), no
\* monitor task runs and no slot or actor exists
C7_StartFailureIsInitError ==
    startRes \notin {"none", "Ok"} =>
        /\ startRes = "InitError"
        /\ monPc = "none"
        /\ slot = 0
        /\ Created = {}

\* C8: once the factory has failed on a restart the monitor has returned, the
\* factory is never invoked again, the published sender stays the dead
\* instance's, and every request issued afterwards returns SendFailed
C8_RestartFactoryFailureIsFinal ==
    /\ [](restartFailed => (monPc = "done" /\ newTx = 0 /\ Terminated(slot)))
    /\ [][restartFailed => (factoryCalls' = factoryCalls /\ slot' = slot /\ aPc'[slot] = aPc[slot])]_vars
    /\ [](\A r \in Reqs : req[r].seen = "restartFailed" => result[r].tag \in {"none", "SendFailed"})

\* MaxRetries{2}: the first restart's factory call failed with one attempt of
\* the budget left, and a request issued afterwards returned SendFailed
C8_Witness ==
    /\ restartFailed
    /\ policy.kind = "MaxRetries"
    /\ attempts < policy.n
    /\ \E r \in Reqs : req[r].seen = "restartFailed" /\ result[r] = Err("SendFailed")

\* C9: with capacity 0 spawn_actor returns Err(InvalidCapacity) and no mailbox
\* or task ever exists; with capacity >= 1 it never returns InvalidCapacity and
\* each successful call starts exactly one consumer loop
C9_SpawnChecksCapacity ==
    /\ (capacity = 0 /\ startRes # "none") =>
            (startRes = "InvalidCapacity" /\ Created = {} /\ spawned = 0 /\ slot = 0)
    /\ capacity >= 1 => startRes # "InvalidCapacity"
    /\ Cardinality(Created) = spawned
    /\ startRes = "Ok" => (spawned >= 1 /\ capacity >= 1)
    /\ \A i \in Inst : Len(mailbox[i]) > 0 => i \in Created

\* spawn_counter(0, _) has returned
C9_Witness ==
    /\ capacity = 0
    /\ startRes = "InvalidCapacity"
    /\ factoryCalls = 1

\* C10: a FailFast request is never pending on delivery; its try_send on a full
\* open mailbox returns MailboxFull and leaves every mailbox as it was, on a
\* closed mailbox it returns SendFailed; a request that returned MailboxFull
\* is in no mailbox and is never handled
C10_FailFastNeverWaits ==
    /\ [](\A c \in Callers :
            (cPc[c] = "send" /\ req[cReq[c]].pol = "FailFast")
            => (~RequestPending(c) /\ Delivery(c) # "Pending"))
    /\ [][\A c \in Callers :
            (/\ cPc[c] = "send"
             /\ req[cReq[c]].pol = "FailFast"
             /\ cPc'[c] # "send")
            => /\ (~Closed(cSnd[c]) /\ Len(mailbox[cSnd[c]]) >= capacity)
                    => (result'[cReq[c]] = Err("MailboxFull") /\ mailbox' = mailbox)
               /\ Closed(cSnd[c]) => result'[cReq[c]] = Err("SendFailed")]_vars
    /\ [](\A r \in Reqs : result[r] = Err("MailboxFull") =>
            /\ req[r].pol = "FailFast"
            /\ reply[r] = Pending
            /\ \A i \in Inst :
                /\ aMsg[i] # r
                /\ \A k \in DOMAIN mailbox[i] : mailbox[i][k] # r
                /\ \A k \in DOMAIN log[i] : log[i][k] # r)

\* a FailFast add found the mailbox full and returned MailboxFull while the
\* actor was still running
C10_Witness ==
    \E r \in Reqs :
        /\ req[r].pol = "FailFast"
        /\ result[r] = Err("MailboxFull")
        /\ aPc[req[r].to] \in {"recv", "handling"}

\* the Hold message has been handled and its handler released
HoldReleased ==
    \E i \in Inst : aPc[i] # "held" /\ \E k \in DOMAIN log[i] : req[log[i][k]].kind = "Hold"

\* C11: a Backpressure request never returns MailboxFull; while the mailbox is
\* full and open its caller stays suspended with the message not enqueued, and
\* only its deadline ends the wait; with the mailbox never closed its delivery
\* never fails, so it returns Ok or Timeout; and once the held actor has been
\* released every Backpressure request in flight completes
C11_BackpressureWaitsForSpace ==
    /\ [](\A r \in Reqs : req[r].pol = "Backpressure" =>
            result[r].tag \in {"none", "Ok", "Timeout"})
    /\ [][\A c \in Callers :
            (/\ cPc[c] = "send"
             /\ req[cReq[c]].pol = "Backpressure"
             /\ ~Closed(cSnd[c])
             /\ Full(cSnd[c]))
            => /\ cPc'[c] = "send" \/ result'[cReq[c]] = Err("Timeout")
               /\ \A k \in DOMAIN mailbox'[cSnd[c]] : mailbox'[cSnd[c]][k] # cReq[c]]_vars
    /\ (\E c \in Callers :
            HandlePolicy[c] = "Backpressure" /\ cPc[c] # "idle" /\ HoldReleased)
            ~> (\A c \in Callers : HandlePolicy[c] = "Backpressure" => cPc[c] = "idle")

\* capacity 1: a Backpressure add issued while the actor was held and the
\* mailbox full has returned Ok after the release
C11_Witness ==
    /\ capacity = 1
    /\ HoldReleased
    /\ \E r \in Reqs :
        /\ req[r].pol = "Backpressure"
        /\ req[r].kind = "Add"
        /\ req[r].seen = "blocked"
        /\ result[r].tag = "Ok"

\* C12: the with_policy(FailFast) handle and the handle it was made from send
\* to the same published instance, each under its own policy: requests of the
\* original handle stay Backpressure; when a FailFast request returns on the
\* full mailbox of the held actor it returns MailboxFull, and a Backpressure
\* request suspended on that mailbox stays suspended in that step; the
\* Backpressure request issued while the actor was blocked returns Ok unless
\* its deadline passes
C12_PolicyIsPerHandle ==
    /\ [](\A r \in Reqs : req[r].kind # "Hold" =>
            /\ req[r].pol = (IF req[r].caller = "c1" THEN "Backpressure" ELSE "FailFast")
            /\ req[r].to = slot
            /\ req[r].seen = "blocked" =>
                    result[r].tag \in (IF req[r].pol = "Backpressure"
                                        THEN {"none", "Ok", "Timeout"}
                                        ELSE {"none", "Ok", "Timeout", "MailboxFull"}))
    /\ [][\A c \in Callers :
            (/\ cPc[c] = "send"
             /\ req[cReq[c]].pol = "FailFast"
             /\ aPc[cSnd[c]] = "held"
             /\ Full(cSnd[c])
             /\ cPc'[c] # "send")
            => /\ result'[cReq[c]] = Err("MailboxFull")
               /\ \A d \in Callers :
                    (cPc[d] = "send" /\ req[cReq[d]].pol = "Backpressure")
                    => (cPc'[d] = "send" /\ cSnd'[d] = cSnd[c] /\ result'[cReq[d]] = NoResult)]_vars

\* capacity 1: while the actor was held with its mailbox full a Backpressure
\* add was issued, then a FailFast add that returned MailboxFull; after the
\* release the Backpressure add returned Ok from the same counter
C12_Witness ==
    /\ capacity = 1
    /\ \E r1, r2 \in Reqs :
        /\ r1 < r2
        /\ req[r1].pol = "Backpressure" /\ req[r1].kind = "Add" /\ req[r1].seen = "blocked"
        /\ req[r2].pol = "FailFast" /\ req[r2].seen = "blocked"
        /\ result[r2] = Err("MailboxFull")
        /\ result[r1].tag = "Ok"

\* the requests instance i's handler has been invoked with
Handled(i) == {log[i][k] : k \in DOMAIN log[i]}

\* C13: when the handler runs on a Stop it fulfils the reply slot with () if the
\* caller still waits, leaves the counter as it is and the loop leaves with
\* StoppedByMessage; from then on the task only ends, and neither its state nor
\* the list of messages it has handled changes, so the Stop is the last message
\* handled; the stop() whose message was handled returns Ok unless its
\* deadline passed first
C13_StopEndsLoop ==
    /\ [][\A i \in Inst :
            (aPc[i] = "handling" /\ req[aMsg[i]].kind = "Stop" /\ aPc'[i] # "handling")
            => /\ aPc'[i] = "exitStop"
               /\ state'[i] = state[i]
               /\ result[aMsg[i]] = NoResult => reply'[aMsg[i]] = Sent(0)]_vars
    /\ [][\A i \in Inst :
            aPc[i] \in {"exitStop", "stopped"}
            => /\ state'[i] = state[i]
               /\ log'[i] = log[i]
               /\ aPc'[i] \in {aPc[i], "stopped"}]_vars
    /\ [](\A i \in Inst : \A k \in DOMAIN log[i] :
            req[log[i][k]].kind = "Stop"
            => /\ k = Len(log[i])
               /\ aPc[i] \in {"exitStop", "stopped"}
               /\ result[log[i][k]].tag \in {"none", "Ok", "Timeout"})
    /\ \A i \in Inst : (aPc[i] = "exitStop") ~> (aPc[i] = "stopped")

\* the stop() caller got Ok(()), the task has ended after handling an add and
\* the Stop, and an add that was queued behind the Stop was never handled
C13_Witness ==
    \E i \in Inst : \E r1, r2 \in Reqs :
        /\ aPc[i] = "stopped"
        /\ state[i] > 0
        /\ req[r1].kind = "Stop" /\ r1 \in Handled(i) /\ result[r1] = Ok(0)
        /\ req[r2].kind = "Add" /\ req[r2].to = i /\ r2 \notin Handled(i)
        /\ reply[r2] = Dropped

\* C14: when the task of an actor stopped by message ends, the reply slot of
\* every message still queued is dropped without a value; a caller waiting on
\* such a slot returns ResponseDropped, no caller's request stays pending on
\* the stopped actor, and every caller with a request in flight on an actor
\* that handled a Stop eventually returns
C14_QueuedBehindStopIsDropped ==
    /\ [][\A i \in Inst :
            (aPc[i] = "exitStop" /\ aPc'[i] = "stopped")
            => \A k \in DOMAIN mailbox[i] : reply'[mailbox[i][k]] = Dropped]_vars
    /\ [](\A r \in Reqs : reply[r] = Dropped
            => /\ \A i \in Inst : r \notin Handled(i)
               /\ result[r].tag \in {"none", "ResponseDropped", "Timeout"})
    /\ [][\A c \in Callers :
            (cPc[c] = "await" /\ reply[cReq[c]] = Dropped /\ cPc'[c] # "await")
            => result'[cReq[c]] = Err("ResponseDropped")]_vars
    /\ [](\A c \in Callers :
            (cPc[c] # "idle" /\ aPc[cSnd[c]] = "stopped") => ~RequestPending(c))
    /\ \A c \in Callers :
        (cPc[c] # "idle" /\ aPc[cSnd[c]] \in {"exitStop", "stopped"}) ~> (cPc[c] = "idle")

\* an add was queued behind the Stop with its caller waiting when the task
\* ended: the caller returned ResponseDropped
C14_Witness ==
    \E i \in Inst : \E r \in Reqs :
        /\ aPc[i] = "stopped"
        /\ req[r].kind = "Add" /\ req[r].to = i
        /\ r \notin Handled(i)
        /\ reply[r] = Dropped
        /\ result[r] = Err("ResponseDropped")

\* the messages of a sequence, as a set
RawSet(q) == {q[k] : k \in DOMAIN q}

\* no message on which the handler returns Stop is queued or being handled
RawNoStopLeft == ~rawMsg.stop /\ \A k \in DOMAIN rawQueue : ~rawQueue[k].stop

\* C15: the loop of an unsupervised actor ends with AllSendersDropped only when
\* no Sender is left and the queue is empty, every message whose send was
\* started has then been handled, none was refused and none dropped, and no
\* Stop was handled; once every Sender is dropped and no Stop message is left,
\* the loop eventually ends with AllSendersDropped
C15_AllSendersDroppedAfterDrain ==
    /\ [][(rawPc # "AllSendersDropped" /\ rawPc' = "AllSendersDropped")
            => (rawSenders = {} /\ rawQueue = <<>> /\ rawPc = "recv")]_vars
    /\ [](rawPc = "AllSendersDropped"
            => /\ rawSenders = {}
               /\ rawFailed = {}
               /\ RawSet(rawHandled) = RawSet(rawStarted)
               /\ Len(rawHandled) = Len(rawStarted)
               /\ rawState = Len(rawStarted)
               /\ \A k \in DOMAIN rawHandled : ~rawHandled[k].stop)
    /\ (rawPc \in {"recv", "handling"} /\ rawSenders = {} /\ RawNoStopLeft)
            ~> (rawPc = "AllSendersDropped")

\* both Senders were dropped after sending, and the loop handled all their
\* messages before it ended with AllSendersDropped
C15_Witness ==
    /\ rawPc = "AllSendersDropped"
    /\ \E k1, k2 \in DOMAIN rawHandled :
        rawHandled[k1].from = "s1" /\ rawHandled[k2].from = "s2"
    /\ Len(rawHandled) >= 3

\* C20: the handler is invoked with the messages of one Sender in the order
\* that Sender sent them, none skipped: the n-th message of a Sender is handled
\* only after its first n-1, and the queue holds each Sender's messages in
\* that order too; nothing is said across Senders
C20_PerSenderFifo ==
    /\ \A k \in DOMAIN rawHandled :
        \A m \in 1..(rawHandled[k].n - 1) :
            \E j \in 1..(k - 1) :
                rawHandled[j].from = rawHandled[k].from /\ rawHandled[j].n = m
    /\ \A j, k \in DOMAIN rawHandled :
        (j < k /\ rawHandled[j].from = rawHandled[k].from) => rawHandled[j].n < rawHandled[k].n
    /\ \A j, k \in DOMAIN rawQueue :
        (j < k /\ rawQueue[j].from = rawQueue[k].from) => rawQueue[j].n < rawQueue[k].n
    /\ \A k \in DOMAIN rawQueue : \A j \in DOMAIN rawHandled :
        rawQueue[k].from = rawHandled[j].from => rawHandled[j].n < rawQueue[k].n

\* two messages of s1 were queued together and handled in send order, and a
\* message of s2 whose send started after the first send of s1 was handled
\* before it
C20_Witness ==
    /\ capacity >= 2
    /\ Len(rawHandled) >= 3
    /\ rawStarted[1].from = "s1"
    /\ rawHandled[1].from = "s2"
    /\ \E j, k \in DOMAIN rawHandled :
        j < k /\ rawHandled[j].from = "s1" /\ rawHandled[k].from = "s1"

\* the sum of the deltas of the first k requests issued
RECURSIVE SumReq(_)
SumReq(k) == IF k = 0 THEN 0 ELSE SumReq(k - 1) + req[k].delta

\* C18: on one counter instance with requests issued one after another, the
\* counter is the sum of the deltas of the adds handled so far; an add or a
\* get that returns Ok returns that sum as it stands after its own message;
\* when no earlier request failed that is the sum of the deltas of all
\* requests issued up to it; and the handler leaves the counter unchanged on
\* a get
C18_SequentialSums ==
    /\ [](\A i \in Inst :
            /\ state[i] = SumLog(i, Len(log[i]))
            /\ \A k \in DOMAIN log[i] :
                result[log[i][k]].tag = "Ok" => result[log[i][k]].v = SumLog(i, k))
    /\ [](\A r \in Reqs :
            (\A q \in 1..r : result[q].tag = "Ok") => result[r].v = SumReq(r))
    /\ [][\A i \in Inst :
            (aPc[i] = "handling" /\ req[aMsg[i]].kind = "Get" /\ aPc'[i] # "handling")
            => (state'[i] = state[i]
                /\ (result[aMsg[i]] = NoResult => reply'[aMsg[i]] = Sent(state[i])))]_vars

\* add(5) returned 5, add(-2) returned 3 and get() returned 3
C18_Witness ==
    /\ Len(req) = 3
    /\ req[1].kind = "Add" /\ req[1].delta = 5 /\ result[1] = Ok(5)
    /\ req[2].kind = "Add" /\ req[2].delta = -2 /\ result[2] = Ok(3)
    /\ req[3].kind = "Get" /\ result[3] = Ok(3)
    /\ state[1] = 3

C16_ReadsSeeTheSwap ==
    /\ [][slot' >= slot]_vars
    /\ [][\A c \in Callers :
            (cPc[c] = "reading" /\ cPc'[c] # "reading")
            => (cSnd'[c] = slot /\ slot' = slot /\ req'[cReq[c]].to = slot)]_vars
    /\ [](\A c \in Callers : cPc[c] \in {"read", "reading"} => req[cReq[c]].asked <= slot)
    /\ [](\A r \in Reqs : req[r].to # 0 =>
            (req[r].to >= req[r].asked /\ req[r].to <= slot))

\* after the swap to the second instance: a read requested before the swap
\* returned the new Sender, and so did a read of the other handle requested
\* after it
C16_Witness ==
    /\ slot = 2
    /\ \E r1, r2 \in Reqs :
        /\ req[r1].caller # req[r2].caller
        /\ req[r1].asked = 1 /\ req[r1].to = 2
        /\ req[r2].asked = 2 /\ req[r2].to = 2

\* C17: the read guards are held by exactly the callers between read() and
\* drop(guard); the write guard is held only by the monitor at its swap and
\* only while no read guard is held; a read guard is granted only while the
\* write guard is not held; and the published Sender changes only in the step
\* in which the monitor, holding the write guard, stores it and drops the guard
C17_ReaderWriterDiscipline ==
    /\ [](/\ readers = {c \in Callers : cPc[c] = "reading"}
          /\ writer <=> monPc = "write"
          /\ writer => readers = {})
    /\ [][(writer' /\ ~writer) => (readers = {} /\ monPc = "lock")]_vars
    /\ [][readers' \ readers # {} => (~writer /\ ~writer')]_vars
    /\ [][(slot' # slot /\ slot # 0)
            => (writer /\ ~writer' /\ monPc = "write" /\ slot' = newTx)]_vars

\* both handles hold a read guard at once while the monitor waits to swap
C17_Witness ==
    /\ readers = Callers
    /\ monPc = "lock"
    /\ ~writer

\* C22: the mailbox of an instance never holds more messages than the capacity
\* given to spawn_actor: a message is enqueued only into a mailbox with a free
\* slot, one at a time, whichever policy its sender uses and whether the
\* consumer is receiving, handling or held; a sender that finds the mailbox
\* full enqueues nothing
C22_MailboxWithinCapacity ==
    /\ [](\A i \in Inst : Len(mailbox[i]) <= capacity)
    /\ [][\A i \in Inst :
            Len(mailbox'[i]) > Len(mailbox[i])
            => /\ Len(mailbox[i]) < capacity
               /\ Len(mailbox'[i]) = Len(mailbox[i]) + 1]_vars
    /\ [][\A c \in Callers :
            (cPc[c] = "send" /\ ~Closed(cSnd[c]) /\ Len(mailbox[cSnd[c]]) = capacity)
            => \A k \in DOMAIN mailbox'[cSnd[c]] : mailbox'[cSnd[c]][k] # cReq[c]]_vars

\* the actor is held with its mailbox at capacity while a Backpressure sender
\* waits for a slot and a FailFast sender has been refused
C22_Witness ==
    \E i \in Inst : \E c \in Callers : \E r \in Reqs :
        /\ aPc[i] = "held"
        /\ Len(mailbox[i]) = capacity
        /\ cPc[c] = "send" /\ cSnd[c] = i /\ req[cReq[c]].pol = "Backpressure"
        /\ req[r].pol = "FailFast" /\ req[r].to = i /\ result[r] = Err("MailboxFull")

\* C23: a request whose message was enqueued and that returns from the wait on
\* its reply slot returns Ok of the value the actor stored in the slot when the
\* slot is fulfilled, and ResponseDropped when the slot was dropped without a
\* value; it never returns from that wait while the slot is still open (only
\* its deadline does that); a slot is dropped without a value only for a
\* message that was enqueued to an instance which has terminated, by stop or by
\* crash, without handling it
C23_ReplySlotDecidesResult ==
    /\ [][\A c \in Callers :
            (cPc[c] = "await" /\ cPc'[c] # "await" /\ result'[cReq[c]] # Err("Timeout"))
            => /\ reply[cReq[c]] # Pending
               /\ reply[cReq[c]].tag = "sent" => result'[cReq[c]] = Ok(reply[cReq[c]].v)
               /\ reply[cReq[c]] = Dropped => result'[cReq[c]] = Err("ResponseDropped")]_vars
    /\ [](\A r \in Reqs :
            /\ result[r].tag = "Ok" => (reply[r] = Sent(result[r].v) /\ r \in Handled(req[r].to))
            /\ result[r] = Err("ResponseDropped") => reply[r] = Dropped
            /\ reply[r] = Dropped =>
                (/\ req[r].to # 0
                 /\ Terminated(req[r].to)
                 /\ r \notin Handled(req[r].to)
                 /\ result[r].tag \in {"none", "ResponseDropped", "Timeout"}))

\* an add queued behind a CrashNow returned ResponseDropped, and an add
\* answered by the restarted instance returned the value in its slot
C23_Witness ==
    \E r1, r2 \in Reqs :
        /\ req[r1].kind = "Add" /\ aPc[req[r1].to] = "panicked"
        /\ reply[r1] = Dropped /\ result[r1] = Err("ResponseDropped")
        /\ req[r2].kind = "Add" /\ req[r2].to = 2
        /\ reply[r2] = Sent(1) /\ result[r2] = Ok(1)

\* the deadline request r was given: its timeout_opt if it has one, otherwise
\* the handle's 200 ms, counted from the call
DeadlineOf(r) ==
    req[r].at + (IF req[r].tmo = None THEN 20 ELSE req[r].tmo)

\* C24: request_with_timeout returns Timeout only at the deadline of the call
\* (the override if one was given, else the default) and only while the reply
\* has not arrived; no call is still in flight after its deadline; a reply that
\* has arrived is what the call returns; so a DelayGet delayed 50 ms returns
\* Timeout under the 10 ms override, and returns the counter under the 200 ms
\* default unless it waits behind other delayed messages
C24_TimeoutAtEffectiveDeadline ==
    /\ [][\A c \in Callers :
            (cReq[c] # 0 /\ result'[cReq[c]] = Err("Timeout"))
            => /\ now = DeadlineOf(cReq[c])
               /\ reply[cReq[c]].tag # "sent"]_vars
    /\ [](\A r \in Reqs :
            /\ result[r] = NoResult => now <= DeadlineOf(r)
            /\ reply[r].tag = "sent" => result[r] \in {NoResult, Ok(reply[r].v)}
            /\ (req[r].kind = "DelayGet" /\ req[r].tmo # None /\ req[r].tmo < req[r].delay)
                => result[r] \in {NoResult, Err("Timeout")}
            /\ (req[r].kind = "DelayGet" /\ result[r].tag = "Ok")
                => (req[r].tmo = None /\ now >= req[r].at + req[r].delay))
    /\ [][\A c \in Callers :
            (cPc[c] = "await" /\ reply[cReq[c]].tag = "sent" /\ cPc'[c] # "await")
            => result'[cReq[c]] = Ok(reply[cReq[c]].v)]_vars

\* test_timeout_triggered, then the same DelayGet under the default deadline:
\* the first returned Timeout 10 ms after the call, the second the counter
C24_Witness ==
    \E r1, r2 \in Reqs :
        /\ req[r1].kind = "DelayGet" /\ req[r1].tmo = Override
        /\ result[r1] = Err("Timeout")
        /\ req[r2].kind = "DelayGet" /\ req[r2].tmo = None
        /\ result[r2].tag = "Ok"
        /\ now < req[r2].at + DEFAULT_TIMEOUT

\* request r was enqueued and returned Timeout before the loop took its message
AbandonedInMailbox(r) ==
    /\ result[r] = Err("Timeout")
    /\ \E i \in Inst : \E k \in DOMAIN mailbox[i] : mailbox[i][k] = r

\* C25: a request that returns Timeout while it waits for its reply leaves its
\* message where it is, in the mailbox or with the loop; a queued message
\* leaves the mailbox only into the loop, which then runs the handler on it;
\* so every add whose message was enqueued is applied to the counter whether
\* or not its caller still waits, every value replied is the sum of the deltas
\* applied up to it, and an abandoned message is eventually handled
C25_TimedOutMessageIsStillHandled ==
    /\ [][\A c \in Callers :
            (cPc[c] = "await" /\ result'[cReq[c]] = Err("Timeout"))
            => (mailbox' = mailbox /\ aMsg' = aMsg /\ log' = log /\ state' = state)]_vars
    /\ [][\A i \in Inst : \A k \in DOMAIN mailbox[i] :
            \/ \E j \in DOMAIN mailbox'[i] : mailbox'[i][j] = mailbox[i][k]
            \/ aMsg'[i] = mailbox[i][k]]_vars
    /\ [][\A i \in Inst :
            aMsg[i] # 0 => (aMsg'[i] = aMsg[i] \/ log'[i] = Append(log[i], aMsg[i]))]_vars
    /\ [](\A i \in Inst :
            /\ state[i] = SumLog(i, Len(log[i]))
            /\ \A k \in DOMAIN log[i] :
                result[log[i][k]].tag = "Ok" => result[log[i][k]].v = SumLog(i, k))
    /\ (\E r \in Reqs : AbandonedInMailbox(r)) ~> (\A r \in Reqs : ~AbandonedInMailbox(r))

\* an add returned Timeout while queued behind a DelayGet, was handled after
\* the delay, and the get issued afterwards by the same handle returned 1
C25_Witness ==
    \E r1, r2 \in Reqs :
        /\ LaterSameCaller(r1, r2)
        /\ req[r1].kind = "Add" /\ result[r1] = Err("Timeout")
        /\ r1 \in Handled(1)
        /\ req[r2].kind = "Get" /\ result[r2] = Ok(1)

\* C21: an instance handles one message at a time: the loop takes a message
\* from its mailbox only while it awaits recv, holding no message and with no
\* handler future unfinished; while the future of a Hold or a DelayGet waits,
\* nothing is dequeued and no handler is invoked; and the counter of an
\* instance changes only in the step in which its loop runs the handler
C21_OneMessageAtATime ==
    /\ [](\A i \in Inst :
            /\ aPc[i] = "recv" => (aMsg[i] = 0 /\ delayed[i] = NoDelay)
            /\ aMsg[i] # 0 <=> aPc[i] = "handling"
            /\ delayed[i] # NoDelay <=> aPc[i] = "delaying")
    /\ [][\A i \in Inst :
            (Len(mailbox'[i]) < Len(mailbox[i]) \/ (aMsg'[i] # aMsg[i] /\ aMsg'[i] # 0))
            => /\ aPc[i] = "recv"
               /\ aMsg[i] = 0
               /\ delayed[i] = NoDelay
               /\ mailbox[i] = <<aMsg'[i]>> \o mailbox'[i]]_vars
    /\ [][\A i \in Inst :
            aPc[i] \in {"held", "delaying"}
            => /\ Len(mailbox'[i]) >= Len(mailbox[i])
               /\ aMsg'[i] = 0
               /\ log'[i] = log[i]
               /\ state'[i] = state[i]]_vars
    /\ [][\A i \in Inst :
            state'[i] # state[i]
            => /\ aPc[i] = "handling"
               /\ log'[i] = Append(log[i], aMsg[i])
               /\ \A j \in Inst \ {i} : state'[j] = state[j]]_vars

\* the Hold has been released, the future of a DelayGet is asleep, and an add
\* sent meanwhile waits in the mailbox after having changed nothing
C21_Witness ==
    \E i \in Inst : \E r \in Reqs :
        /\ HoldReleased
        /\ aPc[i] = "delaying"
        /\ req[r].kind = "Add"
        /\ mailbox[i] = <<r>>
        /\ state[i] = 0

\* the agent that is i-th in rotation when the rotation starts at index from
Rotation(from, i) == AgentNames[((from + i - 1) % agents) + 1]

\* C26: a run whose agents all answered returns max_turns outputs; output i is
\* written by the agent that is i-th in rotation from the manager's next_idx
\* (index 0 for the first run), each output is its agent's prefix followed by
\* the previous output, and the first by the initial input; the first run on
\* fresh agents numbers the answers of each agent 1, 2, ... (alice[1], bob[1],
\* alice[2], bob[2] for two agents and four turns); a run in which an agent
\* did not answer returns fewer outputs, in the same rotation
C26_RoundRobinChain ==
    \A r \in DOMAIN calls :
        (calls[r].kind = "Run" /\ gRes[r].tag = "Ok") =>
            LET T == gRes[r].v IN
            /\ ~calls[r].failed => Len(T) = calls[r].max_turns
            /\ calls[r].failed => Len(T) < calls[r].max_turns
            /\ \A i \in DOMAIN T :
                /\ T[i][1].name = Rotation(calls[r].from, i)
                /\ Tail(T[i]) = (IF i = 1 THEN calls[r].initial ELSE T[i - 1])
            /\ r = 1 =>
                /\ calls[r].from = 0
                /\ \A i \in DOMAIN T : T[i][1].turns = ((i - 1) \div agents) + 1

\* test_round_robin_order_is_correct / test_chaining_correctness: the
\* transcript of run("hello", 4) over alice and bob
C26_Witness ==
    /\ agents = 2
    /\ Len(calls) >= 1
    /\ calls[1].kind = "Run" /\ calls[1].max_turns = 4
    /\ gRes[1].tag = "Ok"
    /\ LET a1 == [name |-> "alice", turns |-> 1]
           b1 == [name |-> "bob", turns |-> 1]
           a2 == [name |-> "alice", turns |-> 2]
           b2 == [name |-> "bob", turns |-> 2]
       IN gRes[1].v = << <<a1>> \o Hello,
                         <<b1, a1>> \o Hello,
                         <<a2, b1, a1>> \o Hello,
                         <<b2, a2, b1, a1>> \o Hello >>

NodeSet == 0..(nodes - 1)
EdgePlaces == UNION {{<<f, k>> : k \in DOMAIN out[f + 1]} : f \in NodeSet}
EdgeSet == {<<p[1], out[p[1] + 1][p[2]]>> : p \in EdgePlaces}
Preds(v) == {e[1] : e \in {x \in EdgeSet : x[2] = v}}
Succs(S) == {e[2] : e \in {x \in EdgeSet : x[1] \in S}}

SetMax(S) == CHOOSE x \in S : \A y \in S : y <= x

\* the length of the longest path of at most k edges that ends at v
RECURSIVE LongestTo(_, _)
LongestTo(v, k) ==
    IF k = 0 THEN 0
    ELSE SetMax({0} \cup {1 + LongestTo(p, k - 1) : p \in Preds(v)})

\* the nodes reachable from S by one to k edges
RECURSIVE Reach(_, _)
Reach(S, k) == IF k = 0 THEN {} ELSE Succs(S) \cup Reach(Succs(S), k - 1)

HasCycle == \E v \in NodeSet : v \in Reach({v}, nodes)

\* the places of node v in the layers build returned, and its layer
LayerPlaces(v) ==
    UNION {{<<l, k>> : k \in {j \in DOMAIN built.layers[l] : built.layers[l][j] = v}} :
            l \in DOMAIN built.layers}
LayerOf(v) == CHOOSE l \in DOMAIN built.layers : \E p \in LayerPlaces(v) : p[1] = l

\* C28: when build returns Ok, every node is in exactly one place of the
\* layers, no layer is empty or holds anything but nodes, the index of a
\* node's layer is the length of the longest path that reaches it, and every
\* edge goes from a layer to a strictly later one
C28_LayersAreLongestPathDepths ==
    built.tag = "Ok" =>
        /\ \A v \in NodeSet : Cardinality(LayerPlaces(v)) = 1
        /\ \A l \in DOMAIN built.layers :
            /\ built.layers[l] # <<>>
            /\ \A k \in DOMAIN built.layers[l] : built.layers[l][k] \in NodeSet
        /\ \A v \in NodeSet : LayerOf(v) - 1 = LongestTo(v, nodes)
        /\ \A e \in EdgeSet : LayerOf(e[1]) < LayerOf(e[2])

\* A -> B, B -> C and the shortcut A -> C: C is in the third layer
C28_Witness ==
    /\ nodes = 3
    /\ EdgeSet = {<<0, 1>>, <<1, 2>>, <<0, 2>>}
    /\ built = [tag |-> "Ok", layers |-> << <<0>>, <<1>>, <<2>> >>]

\* C29: build returns Err(CycleDetected) exactly when the edges accepted so
\* far contain a directed cycle, a self-loop included, and Ok otherwise; it
\* never returns InvalidGraph for a builder filled through add_node and add_edge
C29_CycleDetectedIffCyclic ==
    built # NotBuilt =>
        /\ built.tag = "CycleDetected" <=> HasCycle
        /\ built.tag = "Ok" <=> ~HasCycle
        /\ built.tag \in {"Ok", "CycleDetected"}

\* build_detects_cycle: A -> B and B -> A
C29_Witness ==
    /\ nodes = 2
    /\ out = << <<1>>, <<0>> >>
    /\ built.tag = "CycleDetected"

\* C30: add_edge returns Err(InvalidNodeId) exactly when from or to is not the
\* id of an added node, and then changes nothing of the builder; an accepted
\* edge is pushed on out[from] and counted once in indegree[to]; so the
\* in-degree of every node is the number of edges in the adjacency lists that
\* point to it
C30_AddEdgeChecksIds ==
    /\ [][addRes'.k # addRes.k =>
            /\ addRes'.res = "InvalidNodeId"
                    <=> (addRes'.from \notin NodeSet \/ addRes'.to \notin NodeSet)
            /\ addRes'.res = "InvalidNodeId"
                    => (out' = out /\ indegree' = indegree /\ nodes' = nodes)
            /\ addRes'.res # "InvalidNodeId"
                    => /\ addRes'.res = "Ok"
                       /\ nodes' = nodes
                       /\ out' = [out EXCEPT ![addRes'.from + 1] = Append(@, addRes'.to)]
                       /\ indegree' = [indegree EXCEPT ![addRes'.to + 1] = @ + 1]]_vars
    /\ [](/\ Len(out) = nodes
          /\ Len(indegree) = nodes
          /\ \A e \in EdgeSet : e[2] \in NodeSet
          /\ \A v \in NodeSet :
                indegree[v + 1] = Cardinality({p \in EdgePlaces : out[p[1] + 1][p[2]] = v}))

\* add_edge_rejects_invalid_node_id, after two edges to one node were accepted
C30_Witness ==
    /\ addRes.res = "InvalidNodeId"
    /\ addRes.from \in NodeSet
    /\ addRes.to \notin NodeSet
    /\ \E v \in NodeSet : indegree[v + 1] = 2

\* ------------------------------------------------------------- C31
\* the events of the first n entries of the history of step's calls
RECURSIVE EventsOf(_)
EventsOf(h) == IF h = <<>> THEN <<>> ELSE <<Head(h).event>> \o EventsOf(Tail(h))

\* one Coin for every Push that step was called with in Locked
RECURSIVE CoinsFor(_)
CoinsFor(h) ==
    IF h = <<>> THEN <<>>
    ELSE (IF Head(h).state = "Locked" /\ Head(h).event = "Push" THEN <<"Coin">> ELSE <<>>)
         \o CoinsFor(Tail(h))

\* C31: run handles at most max_steps events, in queue order, where the queue
\* is init_events followed by one Coin per Push handled in Locked; it returns
\* only with the queue empty or the cap reached, hit_cap is true exactly when
\* the cap was reached with events still queued, and from Locked with [Push]
\* and cap 10 it ends Unlocked with coins, pushes, alarms = 1 and hit_cap false
C31_RunHandlesQueueUpToCap ==
    /\ step_counter <= fsmArgs.max_steps
    /\ Len(handled) = step_counter
    /\ EventsOf(handled) \o fsmQ = fsmArgs.init_events \o CoinsFor(handled)
    /\ fsmPc = "done" =>
          /\ fsmQ = <<>> \/ step_counter = fsmArgs.max_steps
          /\ hit_cap <=> (step_counter = fsmArgs.max_steps /\ fsmQ # <<>>)
    /\ (fsmPc = "done" /\ fsmArgs = [init_state |-> "Locked", init_events |-> <<"Push">>,
                                      max_steps |-> TestCap]) =>
          /\ fsmState = "Unlocked"
          /\ ctx = [coins |-> 1, pushes |-> 1, alarms |-> 1]
          /\ hit_cap = FALSE

\* test_run has returned: the Push was handled in Locked and the Coin it queued after it
C31_Witness ==
    /\ fsmPc = "done"
    /\ fsmArgs = [init_state |-> "Locked", init_events |-> <<"Push">>, max_steps |-> TestCap]
    /\ handled = <<[state |-> "Locked", event |-> "Push"], [state |-> "Locked", event |-> "Coin"]>>
    /\ all_actions = <<"Alarm", "EnqueueCoin", "Unlock">>

\* ------------------------------------------------------------- C32
\* the instances whose task has been spawned and has not ended
Alive == {i \in Inst : aPc[i] \notin {"none", "stopped", "panicked", "allDropped"}}

\* the instance the last successful factory call created
Newest == Cardinality(Created)

\* C32: at most one instance is alive at any time; monitor_loop calls the
\* factory only when the instance it joined, the newest one, has ended by
\* panic; and the slot publishes the newest instance's Sender, or, from the
\* restart's factory call to the swap, the Sender of the instance before it,
\* whose task has ended by panic
C32_OneInstanceAndSlotFollows ==
    /\ [](Cardinality(Alive) <= 1)
    /\ [](slot # 0 =>
            \/ slot = Newest
            \/ /\ monPc \in {"lock", "write"}
               /\ newTx = Newest
               /\ slot = Newest - 1
               /\ aPc[slot] = "panicked")
    /\ [][(startRes = "Ok" /\ factoryCalls' # factoryCalls) =>
            /\ monPc = "join"
            /\ monJoin = Newest
            /\ aPc[monJoin] = "panicked"
            /\ Alive = {}]_vars

\* the restart is between its factory call and the swap: the new instance is
\* alive and the slot still publishes the panicked one
C32_Witness ==
    /\ monPc = "lock"
    /\ newTx = 2
    /\ slot = 1
    /\ aPc[1] = "panicked"
    /\ Alive = {2}

\* ------------------------------------------------------------- C33
\* caller c's request is suspended on its mailbox send or on its reply
Suspended(c) ==
    \/ cPc[c] = "send" /\ Delivery(c) = "Pending"
    \/ cPc[c] = "await" /\ reply[cReq[c]] = Pending

\* C33: a request past sender() (sending, or waiting for room or for its
\* reply) holds no read guard; so while no caller is inside sender() the
\* monitor's write() is granted at once, and a swap that monitor_loop has
\* reached always completes, publishing the new instance
C33_SwapNeverBlockedByRequests ==
    /\ [](\A c \in Callers : cPc[c] \in {"send", "await"} => c \notin readers)
    /\ []((monPc = "lock" /\ \A c \in Callers : cPc[c] # "reading") => WriteReady)
    /\ (monPc = "lock") ~> (monPc = "join" /\ slot = Newest /\ ~writer)

\* the handler has panicked on a timed-out CrashNow while c1 waits for room in
\* the full mailbox of that instance, holding no guard
C33_Witness ==
    /\ aPc[1] = "exitPanic"
    /\ cPc["c1"] = "send"
    /\ cSnd["c1"] = 1
    /\ Delivery("c1") = "Pending"
    /\ Suspended("c1")
    /\ readers = {}

\* ------------------------------------------------------------- C34
\* the instances whose handler has faulted
Faulted == {i \in Inst : aPc[i] \in {"exitPanic", "panicked"}}

\* the request whose message instance i's handler was invoked with last: for
\* a faulted instance, the message that was being handled at the fault
BeingHandled(i) == log[i][Len(log[i])]

\* request r's message is in instance i's mailbox, or was there when i's task
\* ended (its reply slot was dropped with the queue)
InMailbox(r, i) ==
    \/ \E k \in DOMAIN mailbox[i] : mailbox[i][k] = r
    \/ req[r].to = i /\ reply[r] = Dropped

\* request r's message has reached no instance but i
OnlyAt(r, i) ==
    \A j \in Inst \ {i} :
        /\ r \notin Handled(j)
        /\ aMsg[j] # r
        /\ \A k \in DOMAIN mailbox[j] : mailbox[j][k] # r

\* the counter of every instance is the sum of the adds its own handler ran on
OwnAddsOnly == \A j \in Created : state[j] = SumLog(j, Len(log[j]))

\* C34 as stated: the messages in the mailbox and the message being handled
\* when the handler faults reach no other instance, no instance's counter
\* reflects them, and their callers get ResponseDropped or Timeout, never a value
C34_FaultLosesQueuedAndHandled ==
    /\ OwnAddsOnly
    /\ \A i \in Faulted : \A r \in Reqs :
          (InMailbox(r, i) \/ r = BeingHandled(i)) =>
              /\ OnlyAt(r, i)
              /\ result[r].tag \in {"none", "ResponseDropped", "Timeout"}

\* C34, amended: the messages in the mailbox when the handler faults reach no
\* instance's handler, no instance's counter reflects them, their reply slots
\* are dropped when the task ends and their callers get ResponseDropped or
\* Timeout; the message being handled is the CrashNow, which reaches no other
\* instance and whose caller gets Ok(()) or Timeout
C34_FaultLosesQueuedMessages ==
    /\ OwnAddsOnly
    /\ \A i \in Faulted :
          /\ req[BeingHandled(i)].kind = "CrashNow"
          /\ OnlyAt(BeingHandled(i), i)
          /\ result[BeingHandled(i)] \in {NoResult, Ok(0), Err("Timeout")}
          /\ \A r \in Reqs :
                InMailbox(r, i) =>
                    /\ r \notin Handled(i)
                    /\ OnlyAt(r, i)
                    /\ result[r].tag \in {"none", "ResponseDropped", "Timeout"}
    /\ \A c \in Callers :
          (cPc[c] = "await" /\ aPc[cSnd[c]] = "panicked") => reply[cReq[c]] # Pending

\* the first instance panicked with c2's add in its mailbox: c2 got
\* ResponseDropped, c1 got Ok(()) for its CrashNow, and the restarted
\* instance counts from 0
C34_Witness ==
    /\ aPc[1] = "panicked"
    /\ aPc[2] = "recv"
    /\ slot = 2
    /\ state[2] = 0
    /\ \E r \in Reqs :
          /\ req[r].kind = "Add"
          /\ req[r].to = 1
          /\ reply[r] = Dropped
          /\ result[r] = Err("ResponseDropped")
    /\ result[BeingHandled(1)] = Ok(0)

\* ------------------------------------------------------------- C35
\* request r's message is in no mailbox, held by no loop and was handled by
\* no handler
NowhereEnqueued(r) ==
    \A i \in Inst :
        /\ \A k \in DOMAIN mailbox[i] : mailbox[i][k] # r
        /\ aMsg[i] # r
        /\ r \notin Handled(i)

\* caller c is suspended in sender.send(msg).await on a full mailbox
BlockedOnSend(c) == cPc[c] = "send" /\ Delivery(c) = "Pending"

\* C35: the deadline of request_with_timeout runs over the Backpressure wait:
\* a caller suspended on a full mailbox when its deadline is reached does not
\* stay suspended; when the call leaves that wait by the deadline it returns
\* Timeout with every mailbox unchanged; and the message of a call that has
\* returned without being enqueued is never enqueued nor handled afterwards
C35_DeadlineCoversBackpressureWait ==
    /\ \A c \in Callers :
          (BlockedOnSend(c) /\ now >= deadline[c]) ~> ~BlockedOnSend(c)
    /\ [][\A c \in Callers : \A r \in Reqs :
            (BlockedOnSend(c) /\ cReq[c] = r /\ cPc'[c] # "send") =>
                /\ now >= deadline[c]
                /\ result'[r] = Err("Timeout")
                /\ mailbox' = mailbox
                /\ NowhereEnqueued(r)']_vars
    /\ [][\A r \in Reqs :
            (result[r] # NoResult /\ NowhereEnqueued(r)) => NowhereEnqueued(r)']_vars

\* c1's DelayGet waited for room behind c2's add while the actor slept in an
\* earlier DelayGet; its 10 ms ran out first, and its message is nowhere
C35_Witness ==
    \E r \in Reqs :
        /\ req[r].caller = "c1"
        /\ req[r].pol = "Backpressure"
        /\ req[r].tmo = Override
        /\ result[r] = Err("Timeout")
        /\ NowhereEnqueued(r)
        /\ now = req[r].at + Override
        /\ Full(1)
        /\ aPc[1] = "delaying"

\* ------------------------------------------------------------- C36
\* C36: every instance whose task has not ended is joined or being published
\* by a running monitor_loop and has a Sender that is not dropped, in the slot
\* or in new_tx, so no loop ever ends with AllSendersDropped; once every
\* handle is dropped, an instance waiting on its empty mailbox and its monitor
\* stay as they are
C36_SlotKeepsActorAlive ==
    /\ [](\A i \in Inst : aPc[i] # "allDropped")
    /\ [](\A i \in Alive :
            /\ monPc \in {"join", "lock", "write"}
            /\ SendersOf(i) \cap {"slot", "new_tx"} # {})
    /\ [][\A i \in Inst :
            (handles = {} /\ aPc[i] = "recv" /\ mailbox[i] = <<>>) =>
                /\ aPc'[i] = "recv"
                /\ monPc' \in {"join", "lock", "write"}
                /\ (monPc = "join" /\ monJoin = i) => (monPc' = "join" /\ monJoin' = i)]_vars

\* both handles are dropped after a crash and a restart: the second instance
\* waits on its empty mailbox and the monitor on its JoinHandle
C36_Witness ==
    /\ handles = {}
    /\ aPc[1] = "panicked"
    /\ aPc[2] = "recv"
    /\ mailbox[2] = <<>>
    /\ monPc = "join"
    /\ monJoin = 2
    /\ SendersOf(2) = {"slot"}

\* ------------------------------------------------------------- C37
\* the places of the handler logs at which request r's message was handled
HandledAt(r) == {p \in Inst \X (1..Len(req)) : p[2] \in DOMAIN log[p[1]] /\ log[p[1]][p[2]] = r}

\* the value the counter's handler computes for request r's message, handled
\* as the k-th message of instance i: the counter after the adds handled up to
\* it for Add, Get and DelayGet, () for Stop and CrashNow
ComputedFor(r, i, k) ==
    IF req[r].kind \in {"Add", "Get", "DelayGet"} THEN SumLog(i, k) ELSE 0

\* C37: every call returns, with one of the six outcomes and only once; a
\* reply slot that is settled never changes; and a value that is in a reply
\* slot or was returned for a request is the value the handler computed for
\* that request's own message, handled exactly once by the instance it was
\* sent to
C37_OneOutcomeOwnValue ==
    /\ \A c \in Callers : (cPc[c] # "idle") ~> (cPc[c] = "idle")
    /\ [](\A r \in Reqs :
            /\ result[r].tag \in {"none", "Ok", "MailboxFull", "SendFailed",
                                  "ResponseDropped", "Timeout"}
            /\ result[r] = NoResult <=> \E c \in Callers : cReq[c] = r)
    /\ [][\A r \in Reqs : result[r] # NoResult => result'[r] = result[r]]_vars
    /\ [][\A r \in Reqs : reply[r] # Pending => reply'[r] = reply[r]]_vars
    /\ [](\A r \in Reqs :
            (reply[r].tag = "sent" \/ result[r].tag = "Ok") =>
                /\ Cardinality(HandledAt(r)) = 1
                /\ \A p \in HandledAt(r) :
                      /\ p[1] = req[r].to
                      /\ reply[r] = Sent(ComputedFor(r, p[1], p[2]))
                      /\ result[r] \in {NoResult, Err("Timeout"),
                                        Ok(ComputedFor(r, p[1], p[2]))})

\* c1's DelayGet was handled before c2's add, read the counter as 0 and got
\* Ok(0); c2's add got Ok(1)
C37_Witness ==
    \E r1, r2 \in Reqs :
        /\ req[r1].caller = "c1" /\ req[r1].kind = "DelayGet" /\ result[r1] = Ok(0)
        /\ req[r2].caller = "c2" /\ req[r2].kind = "Add" /\ result[r2] = Ok(1)
        /\ log[1] = <<r1, r2>>

\* ------------------------------------------------------------- C38
\* the requests some handler has been invoked with
EverHandled == UNION {Handled(i) : i \in Inst}

\* C38: the CrashNow arm fulfils the reply slot of a caller that still waits
\* and only then faults; a crash_now() whose message was handled never returns
\* ResponseDropped: it returns Ok(()) once its slot is fulfilled, and Timeout
\* only if its deadline passed before the handler ran; and only requests whose
\* messages were not handled before the fault return ResponseDropped or
\* SendFailed
C38_CrashNowIsAcknowledged ==
    /\ [][\A i \in Inst :
            (aPc[i] = "handling" /\ req[aMsg[i]].kind = "CrashNow" /\ aPc'[i] # "handling")
            => /\ aPc'[i] = "exitPanic"
               /\ result[aMsg[i]] = NoResult => reply'[aMsg[i]] = Sent(0)]_vars
    /\ [](\A r \in EverHandled :
            req[r].kind = "CrashNow" =>
                /\ result[r] \in {NoResult, Ok(0), Err("Timeout")}
                /\ result[r] = NoResult => reply[r] = Sent(0)
                /\ result[r] = Err("Timeout") => reply[r] = Pending)
    /\ \A c \in Callers :
          (cPc[c] = "await" /\ req[cReq[c]].kind = "CrashNow" /\ reply[cReq[c]] = Sent(0))
              ~> (cPc[c] = "idle")
    /\ [][\A c \in Callers : \A r \in Reqs :
            (cReq[c] = r /\ req[r].kind = "CrashNow" /\ reply[r] = Sent(0) /\ cPc'[c] = "idle")
            => result'[r] = Ok(0)]_vars
    /\ [](\A r \in Reqs :
            result[r].tag \in {"ResponseDropped", "SendFailed"} =>
                /\ r \notin EverHandled
                /\ req[r].to \in Faulted)

\* crash_now() returned Ok(()), the task has ended by the panic, and the get
\* issued afterwards is the call that reports it, with SendFailed
C38_Witness ==
    \E r1, r2 \in Reqs :
        /\ req[r1].kind = "CrashNow"
        /\ result[r1] = Ok(0)
        /\ aPc[req[r1].to] = "panicked"
        /\ r1 < r2
        /\ req[r2].kind = "Get"
        /\ result[r2] = Err("SendFailed")

====
